---- MODULE Spec2Model ----
(***************************************************************************)
(* Model of the PDF structure extractor: SmartHeadingDetector              *)
(* (heading_detector.py), the font hierarchy of AdvancedPDFExtractor       *)
(* (pdf_extractor.py) and PDFProcessor.process_single_pdf                  *)
(* (process_pdfs.py).                                                      *)
(*                                                                         *)
(* Representation.                                                         *)
(*  - A text is a sequence of characters; a character is a one-character   *)
(*    string, and a non-ASCII character is written by its code point       *)
(*    ("U+7AE0").                                                          *)
(*  - A font size is an integer number of tenths of a point (the extractor *)
(*    rounds sizes to one decimal): 14 pt is 140, "- 0.5" is "- 5".        *)
(*  - A score is an integer number of tenths (0.8 is 8) and a confidence   *)
(*    an integer number of thousandths (0.4 is 400): every weighted term   *)
(*    of the code is a whole number of thousandths.  The code adds the     *)
(*    terms in binary floating point; the model adds them exactly, so a    *)
(*    sum that is exactly a threshold in decimal is at the threshold here, *)
(*    and two sums that are equal in decimal are equal here (in the code   *)
(*    they may differ in the last bit, which can decide a sort).  On the   *)
(*    documents and elements below the code computes what the model does.  *)
(*  - An element is a function from field names to values; an absent       *)
(*    dictionary key is a field name outside its DOMAIN.                   *)
(*  - A call that raises is a value whose exc field names the exception.   *)
(***************************************************************************)
EXTENDS Integers, Sequences, FiniteSets, TLC

(***************************************************************************)
(* Characters and the str / re primitives the code uses.                   *)
(***************************************************************************)
LowerLetters ==
  <<"a", "b", "c", "d", "e", "f", "g", "h", "i", "j", "k", "l", "m",
    "n", "o", "p", "q", "r", "s", "t", "u", "v", "w", "x", "y", "z">>

UpperLetters ==
  <<"A", "B", "C", "D", "E", "F", "G", "H", "I", "J", "K", "L", "M",
    "N", "O", "P", "Q", "R", "S", "T", "U", "V", "W", "X", "Y", "Z">>

LowerSet == {LowerLetters[i] : i \in DOMAIN LowerLetters}

UpperSet == {UpperLetters[i] : i \in DOMAIN UpperLetters}

AsciiDigits == {"0", "1", "2", "3", "4", "5", "6", "7", "8", "9"}

FullWidthDigits ==
  {"U+FF11", "U+FF12", "U+FF13", "U+FF14", "U+FF15",
   "U+FF16", "U+FF17", "U+FF18", "U+FF19", "U+FF10"}

ChineseNumerals ==
  {"U+4E00", "U+4E8C", "U+4E09", "U+56DB", "U+4E94",
   "U+516D", "U+4E03", "U+516B", "U+4E5D", "U+5341"}

\* Uncased letters: the kanji and kana of the keyword and pattern tables.
CJKLetters ==
  ChineseNumerals \cup
  {"U+7B2C", "U+7AE0", "U+7BC0", "U+6761", "U+30BF", "U+30A4", "U+30C8",
   "U+30EB", "U+984C", "U+76EE", "U+6A19", "U+90E8", "U+6982", "U+8981",
   "U+7D04", "U+6B21", "U+7D22", "U+5F15", "U+6807", "U+9898", "U+8282",
   "U+6458"}

\* \d of a Python 3 str pattern: every Unicode decimal digit.
Digits == AsciiDigits \cup FullWidthDigits

\* \s
WhiteSpace == {" ", "\t"}

\* \w
WordChars == LowerSet \cup UpperSet \cup Digits \cup CJKLetters \cup {"_"}

ToLowerChar(c) ==
  IF c \in UpperSet
    THEN LowerLetters[CHOOSE i \in DOMAIN UpperLetters : UpperLetters[i] = c]
    ELSE c

ToUpperChar(c) ==
  IF c \in LowerSet
    THEN UpperLetters[CHOOSE i \in DOMAIN LowerLetters : LowerLetters[i] = c]
    ELSE c

\* str.lower()
Lower(text) == [i \in 1..Len(text) |-> ToLowerChar(text[i])]

\* str.isupper(): some cased character, and no lower-case one.
IsUpper(text) ==
  /\ \E i \in 1..Len(text) : text[i] \in UpperSet
  /\ \A i \in 1..Len(text) : text[i] \notin LowerSet

\* str.islower()
IsLower(text) ==
  /\ \E i \in 1..Len(text) : text[i] \in LowerSet
  /\ \A i \in 1..Len(text) : text[i] \notin UpperSet

\* str.title(): a cased character is upper-cased after an uncased one (or
\* at the start) and lower-cased after a cased one.
Title(text) ==
  [i \in 1..Len(text) |->
     IF i > 1 /\ text[i - 1] \in (LowerSet \cup UpperSet)
       THEN ToLowerChar(text[i])
       ELSE ToUpperChar(text[i])]

\* The number of leading characters of text, from position i on, that are
\* in the class S (a greedy S* at i).
Span(text, i, S) ==
  LET stops == {j \in i..Len(text) : text[j] \notin S}
  IN  IF stops = {} THEN (IF i <= Len(text) THEN Len(text) - i + 1 ELSE 0)
      ELSE (CHOOSE j \in stops : \A k \in stops : j <= k) - i

\* The number of trailing characters of text[1..n] that are in the class S.
SpanBack(text, n, S) ==
  LET stops == {j \in 1..n : text[j] \notin S}
  IN  IF stops = {} THEN (IF n >= 1 THEN n ELSE 0)
      ELSE n - (CHOOSE j \in stops : \A k \in stops : j >= k)

\* str.strip()
Strip(text) ==
  LET a == Span(text, 1, WhiteSpace)
      b == SpanBack(text, Len(text), WhiteSpace)
  IN  IF a = Len(text) THEN <<>> ELSE SubSeq(text, a + 1, Len(text) - b)

\* len(str.split()): the number of maximal runs of non-whitespace.
WordCount(text) ==
  Cardinality({i \in 1..Len(text) :
                 /\ text[i] \notin WhiteSpace
                 /\ (i = 1 \/ text[i - 1] \in WhiteSpace)})

\* keyword in text
Contains(text, keyword) ==
  \E i \in 0..(Len(text) - Len(keyword)) :
     SubSeq(text, i + 1, i + Len(keyword)) = keyword

\* re.sub(r'\s+', ' ', text): every run of whitespace becomes one space.
CollapseSpace(text) ==
  SelectSeq([i \in 1..Len(text) |->
               IF text[i] \notin WhiteSpace THEN text[i]
               ELSE IF i > 1 /\ text[i - 1] \in WhiteSpace THEN ""
               ELSE " "],
            LAMBDA c : c # "")

(***************************************************************************)
(* SmartHeadingDetector.__init__: thresholds and tables.                   *)
(***************************************************************************)
\* self.min_confidence = 0.4, in thousandths
min_confidence == 400

\* self.title_confidence = 0.6, in thousandths
title_confidence == 600

\* self.title_keywords['latin']
title_keywords_latin ==
  { <<"t", "i", "t", "l", "e">>,
    <<"c", "h", "a", "p", "t", "e", "r">>,
    <<"p", "a", "r", "t">>,
    <<"s", "e", "c", "t", "i", "o", "n">>,
    <<"i", "n", "t", "r", "o", "d", "u", "c", "t", "i", "o", "n">>,
    <<"a", "b", "s", "t", "r", "a", "c", "t">>,
    <<"s", "u", "m", "m", "a", "r", "y">>,
    <<"o", "v", "e", "r", "v", "i", "e", "w">>,
    <<"c", "o", "n", "t", "e", "n", "t", "s">>,
    <<"i", "n", "d", "e", "x">> }

\* self.title_keywords['cjk']
title_keywords_cjk ==
  { <<"U+30BF", "U+30A4", "U+30C8", "U+30EB">>,
    <<"U+984C", "U+76EE">>,
    <<"U+6A19", "U+984C">>,
    <<"U+7AE0">>,
    <<"U+90E8">>,
    <<"U+7BC0">>,
    <<"U+6982", "U+8981">>,
    <<"U+8981", "U+7D04">>,
    <<"U+76EE", "U+6B21">>,
    <<"U+7D22", "U+5F15">>,
    <<"U+6807", "U+9898">>,
    <<"U+7AE0", "U+8282">>,
    <<"U+6458", "U+8981">> }

\* self.title_keywords.get(language_type, self.title_keywords['latin']):
\* the dictionary has the two keys 'latin' and 'cjk'.
title_keywords(language_type) ==
  IF language_type = "cjk" THEN title_keywords_cjk ELSE title_keywords_latin

\* self.exclude_keywords
exclude_keywords ==
  { <<"p", "a", "g", "e">>,
    <<"f", "i", "g", "u", "r", "e">>,
    <<"t", "a", "b", "l", "e">>,
    <<"a", "p", "p", "e", "n", "d", "i", "x">>,
    <<"r", "e", "f", "e", "r", "e", "n", "c", "e">>,
    <<"b", "i", "b", "l", "i", "o", "g", "r", "a", "p", "h", "y">>,
    <<"f", "o", "o", "t", "n", "o", "t", "e">>,
    <<"h", "e", "a", "d", "e", "r">>,
    <<"f", "o", "o", "t", "e", "r">>,
    <<"c", "o", "p", "y", "r", "i", "g", "h", "t">>,
    <<"r", "i", "g", "h", "t", "s">>,
    <<"r", "e", "s", "e", "r", "v", "e", "d">> }

\* any(exclude in text.lower() for exclude in self.exclude_keywords)
HasExcludeKeyword(text) ==
  \E keyword \in exclude_keywords : Contains(Lower(text), keyword)

\* The position after an optional character c at position p.
SkipOptional(text, p, c) ==
  IF p <= Len(text) /\ text[p] = c THEN p + 1 ELSE p

\* \s+ at position p
SpaceAt(text, p) == p <= Len(text) /\ text[p] \in WhiteSpace

\* ^\d+(\.\d+){k-1}\.?\s+ : the position after the k-th group of digits,
\* or 0 when the text does not start with k dotted groups.
RECURSIVE DottedGroups(_, _, _)
DottedGroups(text, p, k) ==
  LET n == Span(text, p, Digits)
  IN  IF n = 0 THEN 0
      ELSE IF k = 1 THEN p + n
      ELSE IF p + n <= Len(text) /\ text[p + n] = "."
        THEN DottedGroups(text, p + n + 1, k - 1)
        ELSE 0

\* re.match(r'^\d+\.?\s+', text), r'^\d+\.\d+\.?\s+', r'^\d+\.\d+\.\d+\.?\s+'
MatchNumbering(text, k) ==
  LET p == DottedGroups(text, 1, k)
  IN  p > 0 /\ SpaceAt(text, SkipOptional(text, p, "."))

\* re.match(r'^[A-Z]+\.?\s+', text) and r'^[IVX]+\.?\s+' (S the class)
MatchLabel(text, S) ==
  LET n == Span(text, 1, S)
  IN  n > 0 /\ SpaceAt(text, SkipOptional(text, n + 1, "."))

\* re.match(r'^[a-z]\)?\s+', text)
MatchLetterItem(text) ==
  /\ Len(text) >= 1
  /\ text[1] \in LowerSet
  /\ SpaceAt(text, SkipOptional(text, 2, ")"))

\* re.match(r'^\([a-z]\)\s+', text) and r'^\([0-9]\)\s+' (S the class)
MatchParenItem(text, S) ==
  /\ Len(text) >= 4
  /\ text[1] = "("
  /\ text[2] \in S
  /\ text[3] = ")"
  /\ text[4] \in WhiteSpace

\* any(re.match(pattern, text) for pattern in self.heading_patterns)
MatchesHeadingPattern(text) ==
  \/ MatchNumbering(text, 1)
  \/ MatchNumbering(text, 2)
  \/ MatchNumbering(text, 3)
  \/ MatchLabel(text, UpperSet)
  \/ MatchLabel(text, {"I", "V", "X"})
  \/ MatchLetterItem(text)
  \/ MatchParenItem(text, LowerSet)
  \/ MatchParenItem(text, AsciiDigits)

\* r'^第[一二三四五六七八九十\d]+章' with the closing character c
MatchCJKChapter(text, c) ==
  LET n == Span(text, 2, ChineseNumerals \cup Digits)
  IN  /\ Len(text) >= 1
      /\ text[1] = "U+7B2C"
      /\ n > 0
      /\ 2 + n <= Len(text)
      /\ text[2 + n] = c

\* r'^[１２３４５６７８９０]+[．。]\s*' and r'^[一二三四五六七八九十]+[、．。]\s*'
MatchCJKNumbered(text, S, marks) ==
  LET n == Span(text, 1, S)
  IN  n > 0 /\ n + 1 <= Len(text) /\ text[n + 1] \in marks

\* any(re.match(pattern, text) for pattern in self.cjk_patterns)
MatchesCJKPattern(text) ==
  \/ MatchCJKChapter(text, "U+7AE0")
  \/ MatchCJKChapter(text, "U+7BC0")
  \/ MatchCJKChapter(text, "U+6761")
  \/ MatchCJKNumbered(text, FullWidthDigits, {"U+FF0E", "U+3002"})
  \/ MatchCJKNumbered(text, ChineseNumerals, {"U+3001", "U+FF0E", "U+3002"})

(***************************************************************************)
(* SmartHeadingDetector: the text of an outline entry.                     *)
(***************************************************************************)
\* [\d\.\s\-\)\(] , the class of the leading run _clean_heading_text removes
LeadingJunk == Digits \cup WhiteSpace \cup {".", "-", ")", "("}

\* [\w\s\.\!\?] , the complement of the class of the trailing run it removes
TrailingKept == WordChars \cup WhiteSpace \cup {".", "!", "?"}

\* The number of trailing characters of text that are outside the class S.
SpanBackOutside(text, n, S) ==
  LET stops == {j \in 1..n : text[j] \in S}
  IN  IF stops = {} THEN (IF n >= 1 THEN n ELSE 0)
      ELSE n - (CHOOSE j \in stops : \A k \in stops : j >= k)

\* _clean_heading_text
CleanHeadingText(text) ==
  LET unnumbered == SubSeq(text, Span(text, 1, LeadingJunk) + 1, Len(text))
      unpunctuated ==
        SubSeq(unnumbered, 1,
               Len(unnumbered) - SpanBackOutside(unnumbered, Len(unnumbered), TrailingKept))
      normalized == Strip(CollapseSpace(unpunctuated))
  IN  IF IsLower(normalized) \/ IsUpper(normalized)
        THEN Title(normalized)
        ELSE normalized

(***************************************************************************)
(* Elements and dictionaries.                                              *)
(***************************************************************************)
\* element.get(key, default) and self.font_hierarchy.get(key, default)
Get(dict, key, default) == IF key \in DOMAIN dict THEN dict[key] ELSE default

\* {}
EmptyDict == [key \in {} |-> 0]

\* A SmartHeadingDetector on which analyze_document_structure has not yet
\* set the attribute font_hierarchy.
NoHierarchy == [set |-> FALSE, map |-> EmptyDict]

Hierarchy(map) == [set |-> TRUE, map |-> map]

\* A returned value, and a raised exception.
Returned(value) == [exc |-> "none", value |-> value]

\* none is the placeholder of the value's type (0, <<>>).
Raised(exception, none) == [exc |-> exception, value |-> none]

Min(a, b) == IF a <= b THEN a ELSE b

(***************************************************************************)
(* SmartHeadingDetector: the confidence of an element.                     *)
(***************************************************************************)
\* A size score whose bands H1 and H2 have each other's value.
SizeScoreSwapped(fh, font_size) ==
  IF ~fh.set \/ DOMAIN fh.map = {}
    THEN IF font_size >= 160 THEN 10
         ELSE IF font_size >= 140 THEN 6
         ELSE IF font_size >= 120 THEN 8
         ELSE 3
    ELSE IF font_size >= Get(fh.map, "title", 160) THEN 10
         ELSE IF font_size >= Get(fh.map, "H1", 140) THEN 6
         ELSE IF font_size >= Get(fh.map, "H2", 120) THEN 8
         ELSE IF font_size >= Get(fh.map, "H3", 100) THEN 4
         ELSE 2

\* _calculate_size_score, in tenths
SizeScore(fh, font_size) ==
  IF ~fh.set \/ DOMAIN fh.map = {}
    THEN IF font_size >= 160 THEN 10
         ELSE IF font_size >= 140 THEN 8
         ELSE IF font_size >= 120 THEN 6
         ELSE 3
    ELSE IF font_size >= Get(fh.map, "title", 160) THEN 10
         ELSE IF font_size >= Get(fh.map, "H1", 140) THEN 8
         ELSE IF font_size >= Get(fh.map, "H2", 120) THEN 6
         ELSE IF font_size >= Get(fh.map, "H3", 100) THEN 4
         ELSE 2

\* _calculate_position_score, in tenths; element['y_pos'] is a required key
PositionScore(element) ==
  (IF Get(element, "is_left_aligned", FALSE) THEN 4 ELSE 0)
  + (IF Get(element, "is_centered", FALSE) THEN 3 ELSE 0)
  + (IF element["y_pos"] < 150 THEN 3 ELSE 0)

\* _calculate_pattern_score, in tenths; text_clean[0] of an empty text_clean
\* raises IndexError (PatternScoreRaises)
PatternScore(text, language_type) ==
  LET text_clean == Strip(text)
  IN  IF MatchesHeadingPattern(text_clean) THEN 8
      ELSE IF language_type \in {"japanese", "chinese", "cjk"}
              /\ MatchesCJKPattern(text_clean) THEN 8
      ELSE IF \E keyword \in title_keywords(language_type) :
                 Contains(Lower(text_clean), keyword) THEN 6
      ELSE IF IsUpper(text_clean) /\ Len(text_clean) > 2 THEN 4
      ELSE IF /\ text_clean[1] \in UpperSet
              /\ WordCount(text_clean) <= 8
              /\ text_clean[Len(text_clean)] # "." THEN 3
      ELSE 0

\* The branch text_clean[0].isupper() is reached with an empty text_clean:
\* no pattern, keyword or upper-case test holds of the empty text.
PatternScoreRaises(text) == Strip(text) = <<>>

\* _calculate_length_score, in tenths
LengthScore(text) ==
  LET char_count == Len(text)
      word_count == WordCount(text)
  IN  IF 5 <= char_count /\ char_count <= 50 /\ 1 <= word_count /\ word_count <= 8
        THEN 10
      ELSE IF 3 <= char_count /\ char_count <= 100 /\ 1 <= word_count /\ word_count <= 12
        THEN 7
      ELSE IF char_count <= 150 THEN 4
      ELSE 1

(***************************************************************************)
(* The texts of the model, and what the detector computes of each: the     *)
(* operators ending in Of are the operators of the code on these texts,    *)
(* computed once.                                                          *)
(***************************************************************************)
Txt_Empty == <<>>

Txt_Background == <<"B", "a", "c", "k", "g", "r", "o", "u", "n", "d">>

Txt_BACKGROUND == <<"B", "A", "C", "K", "G", "R", "O", "U", "N", "D">>

Txt_BackGround == <<"B", "a", "c", "k", "G", "r", "o", "u", "n", "d">>

Txt_Introduction ==
  <<"1", ".", " ", "I", "n", "t", "r", "o", "d", "u", "c", "t", "i", "o", "n">>

Txt_Page3 == <<"P", "a", "g", "e", " ", "3">>

Txt_IntroColons == <<"I", "n", "t", "r", "o", ":", " ", ":">>

Txt_Summary == <<"S", "u", "m", "m", "a", "r", "y">>

Txt_Blank == <<" ">>

Txt_ab == <<"a", "b", ":">>

Txt_Scope == <<"1", ".", "1", " ", "S", "c", "o", "p", "e">>

Txt_Terms == <<"1", ".", "1", ".", "1", " ", "T", "e", "r", "m", "s">>

\* The edge cases of test_edge_cases, but for the empty text: "a",
\* "A" * 300, "123", "!!!", "Page 1" and "Figure 1.1".
Txt_a == <<"a">>

LongWordLength == 300

Txt_LongWord == [i \in 1..LongWordLength |-> "A"]

Txt_123 == <<"1", "2", "3">>

Txt_Bangs == <<"!", "!", "!">>

Txt_Page1 == <<"P", "a", "g", "e", " ", "1">>

Txt_Figure == <<"F", "i", "g", "u", "r", "e", " ", "1", ".", "1">>

\* Texts of kanji and kana: three keywords of self.title_keywords['cjk'],
\* and a chapter heading of self.cjk_patterns.
Txt_CJKSummary == <<"U+6982", "U+8981">>

Txt_CJKTitle == <<"U+30BF", "U+30A4", "U+30C8", "U+30EB">>

Txt_CJKContents == <<"U+76EE", "U+6B21">>

Txt_CJKChapter == <<"U+7B2C", "U+4E00", "U+7AE0">>

Texts ==
  { Txt_Empty, Txt_Blank, Txt_Background, Txt_BACKGROUND, Txt_BackGround,
    Txt_Introduction, Txt_Page3, Txt_IntroColons, Txt_Summary, Txt_ab,
    Txt_Scope, Txt_Terms, Txt_a, Txt_LongWord, Txt_123, Txt_Bangs, Txt_Page1,
    Txt_Figure, Txt_CJKSummary, Txt_CJKTitle, Txt_CJKContents,
    Txt_CJKChapter }

\* The values of element['language_type'] (_detect_language_type).
Languages ==
  {"latin", "japanese", "chinese", "cjk", "hebrew", "arabic", "hindi"}

\* The texts above and what _clean_heading_text makes of them, once and
\* twice.
KnownTexts ==
  LET once == {CleanHeadingText(t) : t \in Texts}
  IN  Texts \cup once \cup {CleanHeadingText(t) : t \in once}

PatternScoreTable ==
  [t \in {x \in KnownTexts : ~PatternScoreRaises(x)}, l \in Languages |->
     PatternScore(t, l)]

PatternScoreOf(text, language_type) == PatternScoreTable[text, language_type]

LengthScoreTable == [t \in KnownTexts |-> LengthScore(t)]

LengthScoreOf(text) == LengthScoreTable[text]

HasExcludeKeywordTable == [t \in KnownTexts |-> HasExcludeKeyword(t)]

HasExcludeKeywordOf(text) == HasExcludeKeywordTable[text]

CleanHeadingTextTable == [t \in KnownTexts |-> CleanHeadingText(t)]

CleanHeadingTextOf(text) == CleanHeadingTextTable[text]

\* _calculate_special_score, in tenths
SpecialScore(element) ==
  (IF HasExcludeKeywordOf(element["text"]) THEN -5 ELSE 0)
  + (IF Get(element, "starts_with_number", FALSE) THEN 3 ELSE 0)
  + (IF element["page"] <= 3 THEN 2 ELSE 0)
  + (IF element["page"] > 20 THEN -1 ELSE 0)

\* _calculate_heading_confidence, in thousandths: the weights 0.3, 0.15,
\* 0.2, 0.2, 0.1 and 0.05 applied to scores in tenths, capped at 1.0.
HeadingConfidence(fh, element) ==
  IF "y_pos" \notin DOMAIN element THEN Raised("KeyError", 0)
  ELSE IF PatternScoreRaises(element["text"]) THEN Raised("IndexError", 0)
  ELSE Returned(Min(
         SizeScore(fh, element["size"]) * 30
         + (IF Get(element, "is_bold", FALSE) THEN 150 ELSE 0)
         + PositionScore(element) * 20
         + PatternScoreOf(element["text"], Get(element, "language_type", "latin")) * 20
         + LengthScoreOf(element["text"]) * 10
         + SpecialScore(element) * 5,
         1000))

(***************************************************************************)
(* SmartHeadingDetector: candidates, classification, outline.              *)
(***************************************************************************)
\* All elements of pages_data, page after page.
RECURSIVE Flatten(_)
Flatten(pages_data) ==
  IF pages_data = <<>> THEN <<>>
  ELSE Head(pages_data) \o Flatten(Tail(pages_data))

\* A sort key that is the page alone.
CandidateBeforeByPage(a, b) == a["page"] < b["page"]

\* The sort key of _find_potential_headings:
\* (x['page'], -x['confidence'], x['y_pos']); a strictly before b.
CandidateBefore(a, b) ==
  \/ a["page"] < b["page"]
  \/ a["page"] = b["page"] /\ a["confidence"] > b["confidence"]
  \/ a["page"] = b["page"] /\ a["confidence"] = b["confidence"]
     /\ a["y_pos"] < b["y_pos"]

\* list.sort is stable: x goes before the first entry it is strictly before.
RECURSIVE InsertCandidate(_, _)
InsertCandidate(sorted, x) ==
  IF sorted = <<>> THEN <<x>>
  ELSE IF CandidateBefore(x, Head(sorted)) THEN <<x>> \o sorted
  ELSE <<Head(sorted)>> \o InsertCandidate(Tail(sorted), x)

RECURSIVE SortCandidates(_)
SortCandidates(list) ==
  IF list = <<>> THEN <<>>
  ELSE InsertCandidate(SortCandidates(SubSeq(list, 1, Len(list) - 1)),
                       list[Len(list)])

\* What _calculate_heading_confidence gives for each element of the list.
Confidences(fh, elements) ==
  [i \in DOMAIN elements |-> HeadingConfidence(fh, elements[i])]

\* The exception of the first element that makes
\* _calculate_heading_confidence raise: it propagates.
FirstRaise(confidences) ==
  IF \A i \in DOMAIN confidences : confidences[i].exc = "none" THEN "none"
  ELSE confidences[CHOOSE i \in DOMAIN confidences :
                     /\ confidences[i].exc # "none"
                     /\ \A j \in 1..(i - 1) : confidences[j].exc = "none"].exc

\* The candidates of _find_potential_headings before the sort: the elements
\* with confidence >= min_confidence, each with its confidence.
KeepCandidates(elements, confidences) ==
  SelectSeq(
    [i \in DOMAIN elements |->
       [key \in DOMAIN elements[i] \cup {"confidence"} |->
          IF key = "confidence" THEN confidences[i].value ELSE elements[i][key]]],
    LAMBDA candidate : candidate["confidence"] >= min_confidence)

\* _find_potential_headings after the elements are scored
SelectCandidates(elements, confidences) ==
  IF FirstRaise(confidences) # "none"
    THEN Raised(FirstRaise(confidences), <<>>)
    ELSE Returned(SortCandidates(KeepCandidates(elements, confidences)))

\* _find_potential_headings
FindPotentialHeadings(fh, pages_data) ==
  SelectCandidates(Flatten(pages_data), Confidences(fh, Flatten(pages_data)))

\* The conditions of the title with the margin of find_document_title: two
\* points below the title size.
TitleConditionsWide(fh, heading) ==
  /\ heading["page"] <= 2
  /\ heading["confidence"] >= title_confidence
  /\ heading["size"] >= Get(fh.map, "title", 160) - 20
  /\ WordCount(heading["text"]) <= 10
  /\ ~HasExcludeKeywordOf(heading["text"])

\* The conditions for 'title' without the one on the page.
TitleConditionsAnyPage(fh, heading) ==
  /\ heading["confidence"] >= title_confidence
  /\ heading["size"] >= Get(fh.map, "title", 160) - 10
  /\ WordCount(heading["text"]) <= 10
  /\ ~HasExcludeKeywordOf(heading["text"])

\* The conditions of _classify_heading_level for the level 'title', but for
\* title_found.
TitleConditions(fh, heading) ==
  /\ heading["page"] <= 2
  /\ heading["confidence"] >= title_confidence
  /\ heading["size"] >= Get(fh.map, "title", 160) - 10
  /\ WordCount(heading["text"]) <= 10
  /\ ~HasExcludeKeywordOf(heading["text"])

\* The rules of the level with those of the numbering tried first.
LevelByNumberingFirst(fh, font_size, text) ==
  IF MatchNumbering(text, 1) THEN "H1"
  ELSE IF MatchNumbering(text, 2) THEN "H2"
  ELSE IF MatchNumbering(text, 3) THEN "H3"
  ELSE IF font_size >= Get(fh.map, "H1", 140) - 5 THEN "H1"
  ELSE IF font_size >= Get(fh.map, "H2", 120) - 5 THEN "H2"
  ELSE IF font_size >= Get(fh.map, "H3", 100) - 5 THEN "H3"
  ELSE "None"

\* The level _classify_heading_level gives a heading that is not the title:
\* by font size, then by numbering; None is "None".
LevelBySize(fh, font_size, text) ==
  IF font_size >= Get(fh.map, "H1", 140) - 5 THEN "H1"
  ELSE IF font_size >= Get(fh.map, "H2", 120) - 5 THEN "H2"
  ELSE IF font_size >= Get(fh.map, "H3", 100) - 5 THEN "H3"
  ELSE IF MatchNumbering(text, 1) THEN "H1"
  ELSE IF MatchNumbering(text, 2) THEN "H2"
  ELSE IF MatchNumbering(text, 3) THEN "H3"
  ELSE "None"

\* _classify_heading_level without the test of title_found: every heading
\* that meets the conditions becomes 'title'.
ClassifyHeadingLevelTitleAgain(fh, heading, title_found) ==
  IF TitleConditions(fh, heading)
    THEN "title"
    ELSE LevelBySize(fh, heading["size"], heading["text"])

\* _classify_heading_level.  self.font_hierarchy is set when
\* analyze_document_structure calls it.
ClassifyHeadingLevel(fh, heading, title_found) ==
  IF ~title_found /\ TitleConditions(fh, heading)
    THEN "title"
    ELSE LevelBySize(fh, heading["size"], heading["text"])

\* The loop of _classify_headings from the state (classified, title_found).
RECURSIVE ClassifyFrom(_, _, _, _)
ClassifyFrom(fh, potential_headings, classified, title_found) ==
  IF potential_headings = <<>> THEN classified
  ELSE LET heading == Head(potential_headings)
           level == ClassifyHeadingLevel(fh, heading, title_found)
       IN  ClassifyFrom(
             fh, Tail(potential_headings),
             IF level # "None"
               THEN Append(classified,
                           [level |-> level, text |-> heading["text"],
                            page |-> heading["page"],
                            confidence |-> heading["confidence"],
                            font_size |-> heading["size"]])
               ELSE classified,
             title_found \/ level = "title")

\* _classify_headings
ClassifyHeadings(fh, potential_headings) ==
  ClassifyFrom(fh, potential_headings, <<>>, FALSE)

\* _get_level_priority
GetLevelPriority(level) ==
  CASE level = "H1" -> 1
    [] level = "H2" -> 2
    [] level = "H3" -> 3
    [] OTHER -> 4

\* A sort key of the page alone.
OutlineBeforeByPage(a, b) == a.page < b.page

\* The sort key of _post_process_outline:
\* (x['page'], self._get_level_priority(x['level'])); a strictly before b.
OutlineBefore(a, b) ==
  \/ a.page < b.page
  \/ a.page = b.page /\ GetLevelPriority(a.level) < GetLevelPriority(b.level)

RECURSIVE InsertOutline(_, _)
InsertOutline(sorted, x) ==
  IF sorted = <<>> THEN <<x>>
  ELSE IF OutlineBefore(x, Head(sorted)) THEN <<x>> \o sorted
  ELSE <<Head(sorted)>> \o InsertOutline(Tail(sorted), x)

\* clean_outline.sort(key=...)
RECURSIVE SortOutline(_)
SortOutline(list) ==
  IF list = <<>> THEN <<>>
  ELSE InsertOutline(SortOutline(SubSeq(list, 1, Len(list) - 1)), list[Len(list)])

\* A key of seen_texts that keeps the case of the text.
SeenKeyCased(text_clean) == text_clean

\* text_clean.lower(), the key of seen_texts
SeenKey(text_clean) == Lower(text_clean)

\* A turn of the loop that keeps the last heading of a text in place of
\* the first.
KeepHeadingLast(heading, text_clean, seen) ==
  IF Len(text_clean) <= 2 THEN seen
  ELSE [seen_texts |-> seen.seen_texts \cup {SeenKey(text_clean)},
        clean_outline |->
          Append(SelectSeq(seen.clean_outline,
                           LAMBDA kept : SeenKey(kept.text) # SeenKey(text_clean)),
                 [level |-> heading.level, text |-> text_clean,
                  page |-> heading.page])]

\* One turn of the loop of _post_process_outline, text_clean being the
\* cleaned text of the heading: the state (seen_texts, clean_outline) after.
KeepHeading(heading, text_clean, seen) ==
  IF SeenKey(text_clean) \notin seen.seen_texts /\ Len(text_clean) > 2
    THEN [seen_texts |-> seen.seen_texts \cup {SeenKey(text_clean)},
          clean_outline |->
            Append(seen.clean_outline,
                   [level |-> heading.level, text |-> text_clean,
                    page |-> heading.page])]
    ELSE seen

\* The loop of _post_process_outline over outline_headings, from the state
\* seen = (seen_texts, clean_outline).
RECURSIVE Deduplicate(_, _)
Deduplicate(outline_headings, seen) ==
  IF outline_headings = <<>> THEN seen.clean_outline
  ELSE Deduplicate(
         Tail(outline_headings),
         KeepHeading(Head(outline_headings),
                     CleanHeadingTextOf(Head(outline_headings).text), seen))

\* A selection that keeps every classified heading.
AllHeadings(classified_headings) == classified_headings

\* [h for h in classified_headings if h['level'] != 'title']
OutlineHeadings(classified_headings) ==
  SelectSeq(classified_headings, LAMBDA h : h.level # "title")

\* _post_process_outline
PostProcessOutline(classified_headings) ==
  SortOutline(Deduplicate(OutlineHeadings(classified_headings),
                          [seen_texts |-> {}, clean_outline |-> <<>>]))

(***************************************************************************)
(* AdvancedPDFExtractor: the font hierarchy of a document.                 *)
(***************************************************************************)
\* self.font_size_threshold = 8.0, in tenths of a point
font_size_threshold == 80

\* sorted(set(font_sizes), reverse=True)
RECURSIVE SortDescending(_)
SortDescending(sizes) ==
  IF sizes = {} THEN <<>>
  ELSE LET largest == CHOOSE x \in sizes : \A y \in sizes : y <= x
       IN  <<largest>> \o SortDescending(sizes \ {largest})

\* The elements analyze_font_distribution counts: size >= the threshold.
SizedElements(pages_data) ==
  SelectSeq(Flatten(pages_data), LAMBDA e : e["size"] >= font_size_threshold)

\* font_size_counts[size]
SizeCount(elements, size) ==
  Cardinality({i \in DOMAIN elements : elements[i]["size"] = size})

\* len([e for e in size_to_elements[size] if e['page'] <= 2])
EarlyCount(elements, size) ==
  Cardinality({i \in DOMAIN elements :
                 elements[i]["size"] = size /\ elements[i]["page"] <= 2})

\* _create_font_clusters.  importance = 0.7 * size / max(sizes)
\* + 0.3 * count / total is kept as its numerator over the common
\* denominator 10 * max(sizes) * total, which orders the clusters the same.
CreateFontClusters(sizes, elements) ==
  [i \in 1..Len(sizes) |->
     [size |-> sizes[i],
      count |-> SizeCount(elements, sizes[i]),
      rank |-> i,
      importance |-> 7 * sizes[i] * Len(elements)
                     + 3 * SizeCount(elements, sizes[i]) * sizes[1]]]

\* sorted(clusters, key=importance, reverse=True): stable, so clusters of
\* equal importance keep their order.
RECURSIVE InsertCluster(_, _)
InsertCluster(sorted, x) ==
  IF sorted = <<>> THEN <<x>>
  ELSE IF x.importance > Head(sorted).importance THEN <<x>> \o sorted
  ELSE <<Head(sorted)>> \o InsertCluster(Tail(sorted), x)

RECURSIVE SortClusters(_)
SortClusters(clusters) ==
  IF clusters = <<>> THEN <<>>
  ELSE InsertCluster(SortClusters(SubSeq(clusters, 1, Len(clusters) - 1)),
                     clusters[Len(clusters)])

\* The title size of _create_font_hierarchy: among the first three clusters
\* with an element on pages 1-2, the first with the most such elements
\* (max returns the first maximum); without any, the first cluster.
TitleSize(sorted_clusters, elements) ==
  LET top == SubSeq(sorted_clusters, 1, Min(3, Len(sorted_clusters)))
      title_candidates ==
        SelectSeq(top, LAMBDA c : EarlyCount(elements, c.size) > 0)
      best == CHOOSE i \in DOMAIN title_candidates :
                /\ \A j \in DOMAIN title_candidates :
                     EarlyCount(elements, title_candidates[j].size)
                       <= EarlyCount(elements, title_candidates[i].size)
                /\ \A j \in 1..(i - 1) :
                     EarlyCount(elements, title_candidates[j].size)
                       < EarlyCount(elements, title_candidates[i].size)
  IN  IF title_candidates # <<>>
        THEN title_candidates[best].size
        ELSE sorted_clusters[1].size

\* A hierarchy whose synthesised levels are two points apart instead of
\* one.
CreateFontHierarchyTwoApart(clusters, elements) ==
  IF clusters = <<>>
    THEN [title |-> 160, H1 |-> 140, H2 |-> 120, H3 |-> 100]
    ELSE
      LET sorted_clusters == SortClusters(clusters)
          title == TitleSize(sorted_clusters, elements)
          remaining == SelectSeq(sorted_clusters, LAMBDA c : c.size # title)
      IN  IF Len(remaining) >= 3
            THEN [title |-> title, H1 |-> remaining[1].size,
                  H2 |-> remaining[2].size, H3 |-> remaining[3].size]
          ELSE IF Len(remaining) = 2
            THEN [title |-> title, H1 |-> remaining[1].size,
                  H2 |-> remaining[2].size, H3 |-> remaining[2].size - 20]
          ELSE IF Len(remaining) = 1
            THEN [title |-> title, H1 |-> remaining[1].size,
                  H2 |-> remaining[1].size - 20, H3 |-> remaining[1].size - 40]
          ELSE [title |-> title, H1 |-> title - 20,
                H2 |-> title - 40, H3 |-> title - 60]

\* _create_font_hierarchy; 1 pt is 10 tenths
CreateFontHierarchy(clusters, elements) ==
  IF clusters = <<>>
    THEN [title |-> 160, H1 |-> 140, H2 |-> 120, H3 |-> 100]
    ELSE
      LET sorted_clusters == SortClusters(clusters)
          title == TitleSize(sorted_clusters, elements)
          remaining == SelectSeq(sorted_clusters, LAMBDA c : c.size # title)
      IN  IF Len(remaining) >= 3
            THEN [title |-> title, H1 |-> remaining[1].size,
                  H2 |-> remaining[2].size, H3 |-> remaining[3].size]
          ELSE IF Len(remaining) = 2
            THEN [title |-> title, H1 |-> remaining[1].size,
                  H2 |-> remaining[2].size, H3 |-> remaining[2].size - 10]
          ELSE IF Len(remaining) = 1
            THEN [title |-> title, H1 |-> remaining[1].size,
                  H2 |-> remaining[1].size - 10, H3 |-> remaining[1].size - 20]
          ELSE [title |-> title, H1 |-> title - 20,
                H2 |-> title - 30, H3 |-> title - 40]

\* analyze_font_distribution(pages_data)['hierarchy']
AnalyzeFontDistribution(pages_data) ==
  LET elements == SizedElements(pages_data)
      unique_sizes ==
        SortDescending({elements[i]["size"] : i \in DOMAIN elements})
  IN  IF elements = <<>> THEN EmptyDict
      ELSE CreateFontHierarchy(CreateFontClusters(unique_sizes, elements), elements)

(***************************************************************************)
(* SmartHeadingDetector: the two entry points.                             *)
(***************************************************************************)
UntitledDocument ==
  <<"U", "n", "t", "i", "t", "l", "e", "d", " ",
    "D", "o", "c", "u", "m", "e", "n", "t">>

\* analyze_document_structure from its fourth step on
AnalyzeClassified(hierarchy, classified_headings) ==
  [hierarchy |-> hierarchy, classified |-> classified_headings,
   ret |-> Returned(PostProcessOutline(classified_headings))]

\* analyze_document_structure from its third step on: classification and
\* post-processing of the candidates, or the exception raised while they
\* were scored.
AnalyzeCandidates(hierarchy, potential_headings) ==
  IF potential_headings.exc # "none"
    THEN [hierarchy |-> hierarchy, classified |-> <<>>,
          ret |-> Raised(potential_headings.exc, <<>>)]
    ELSE AnalyzeClassified(
           hierarchy, ClassifyHeadings(hierarchy, potential_headings.value))

\* analyze_document_structure from its second step on, self.font_hierarchy
\* being set to hierarchy.
AnalyzeWithHierarchy(hierarchy, pages_data) ==
  AnalyzeCandidates(hierarchy, FindPotentialHeadings(hierarchy, pages_data))

\* An analysis that assigns self.font_hierarchy only when the detector has
\* none yet, and keeps the one of an earlier document otherwise.
AnalyzeDocumentStructureCached(fh, pages_data) ==
  IF pages_data = <<>>
    THEN [hierarchy |-> fh, classified |-> <<>>, ret |-> Returned(<<>>)]
  ELSE IF fh.set THEN AnalyzeWithHierarchy(fh, pages_data)
  ELSE AnalyzeWithHierarchy(Hierarchy(AnalyzeFontDistribution(pages_data)),
                            pages_data)

\* The intermediate values and the return value of
\* analyze_document_structure on a detector whose font_hierarchy is fh:
\* hierarchy is the detector's attribute after the call, classified what
\* _classify_headings returned.
AnalyzeDocumentStructure(fh, pages_data) ==
  IF pages_data = <<>>
    THEN [hierarchy |-> fh, classified |-> <<>>, ret |-> Returned(<<>>)]
    ELSE AnalyzeWithHierarchy(Hierarchy(AnalyzeFontDistribution(pages_data)),
                              pages_data)

\* The loop of find_document_title over the elements of the first two
\* pages, confidences being what _calculate_heading_confidence gives for
\* each: the title candidates, or the exception of the first element that
\* raises (self.font_hierarchy of a detector without the attribute raises
\* AttributeError, and is read only when confidence >= title_confidence).
RECURSIVE TitleCandidates(_, _, _, _)
TitleCandidates(fh, elements, confidences, title_candidates) ==
  IF elements = <<>> THEN Returned(title_candidates)
  ELSE IF Head(confidences).exc # "none"
    THEN Raised(Head(confidences).exc, <<>>)
  ELSE IF Head(confidences).value < title_confidence
    THEN TitleCandidates(fh, Tail(elements), Tail(confidences), title_candidates)
  ELSE IF ~fh.set THEN Raised("AttributeError", <<>>)
  ELSE TitleCandidates(
         fh, Tail(elements), Tail(confidences),
         IF Head(elements)["size"] >= Get(fh.map, "title", 160) - 20
           THEN Append(title_candidates,
                       [text |-> Head(elements)["text"],
                        confidence |-> Head(confidences).value,
                        size |-> Head(elements)["size"],
                        page |-> Head(elements)["page"]])
           ELSE title_candidates)

\* The first of the candidates, as without the sort.
FirstTitleCandidate(title_candidates) == title_candidates[1]

\* title_candidates.sort(key=(confidence, size), reverse=True)[0]: the
\* first candidate that no candidate exceeds.
BestTitleCandidate(title_candidates) ==
  LET Exceeds(a, b) ==
        \/ a.confidence > b.confidence
        \/ a.confidence = b.confidence /\ a.size > b.size
      best == CHOOSE i \in DOMAIN title_candidates :
                /\ \A j \in DOMAIN title_candidates :
                     ~Exceeds(title_candidates[j], title_candidates[i])
                /\ \A j \in 1..(i - 1) :
                     Exceeds(title_candidates[i], title_candidates[j])
  IN  title_candidates[best]

\* max(pages_data[0], key=size): the first element of the largest size
LargestElement(elements) ==
  elements[CHOOSE i \in DOMAIN elements :
             /\ \A j \in DOMAIN elements : elements[j]["size"] <= elements[i]["size"]
             /\ \A j \in 1..(i - 1) : elements[j]["size"] < elements[i]["size"]]

\* A selection that takes max(pages_data[0]) without looking whether the
\* first page has an element: max of an empty list raises ValueError.
SelectTitleUnguarded(title_candidates, pages_data) ==
  IF title_candidates.exc # "none"
    THEN Raised(title_candidates.exc, <<>>)
  ELSE IF title_candidates.value # <<>>
    THEN Returned(CleanHeadingTextOf(
                    BestTitleCandidate(title_candidates.value).text))
  ELSE IF pages_data[1] # <<>>
    THEN Returned(CleanHeadingTextOf(LargestElement(pages_data[1])["text"]))
  ELSE Raised("ValueError", <<>>)

\* find_document_title after its loop
SelectTitle(title_candidates, pages_data) ==
  IF title_candidates.exc # "none"
    THEN Raised(title_candidates.exc, <<>>)
  ELSE IF title_candidates.value # <<>>
    THEN Returned(CleanHeadingTextOf(
                    BestTitleCandidate(title_candidates.value).text))
  ELSE IF pages_data[1] # <<>>
    THEN Returned(CleanHeadingTextOf(LargestElement(pages_data[1])["text"]))
  ELSE Returned(UntitledDocument)

\* find_document_title over the elements of the first two pages
ScanForTitle(fh, scanned, pages_data) ==
  SelectTitle(TitleCandidates(fh, scanned, Confidences(fh, scanned), <<>>),
              pages_data)

\* find_document_title
FindDocumentTitle(fh, pages_data) ==
  IF pages_data = <<>> THEN Returned(UntitledDocument)
  ELSE ScanForTitle(fh, Flatten(SubSeq(pages_data, 1, Min(2, Len(pages_data)))),
                    pages_data)

(***************************************************************************)
(* PDFProcessor.                                                           *)
(***************************************************************************)
\* _create_empty_result
CreateEmptyResult == [title |-> UntitledDocument, outline |-> <<>>]

\* The outline of _validate_and_clean_result: the items whose level is H1,
\* H2 or H3 and whose stripped text is not empty, in their order.
ValidOutline(outline) ==
  SelectSeq([i \in DOMAIN outline |->
               [level |-> outline[i].level,
                text |-> Strip(outline[i].text),
                page |-> outline[i].page]],
            LAMBDA item : item.level \in {"H1", "H2", "H3"} /\ Len(item.text) > 0)

\* _validate_and_clean_result, of a result whose title is a string
ValidateAndCleanResult(result) ==
  [title |-> result.title, outline |-> ValidOutline(result.outline)]

(***************************************************************************)
(* Values of any type, as _validate_and_clean_result may find them in a    *)
(* record: each with the name of its Python type.  A str is its sequence   *)
(* of characters, a list the sequence of its items, a dict the function    *)
(* from its keys.                                                          *)
(***************************************************************************)
PyNone == [type |-> "NoneType"]
PyStr(chars) == [type |-> "str", chars |-> chars]
PyInt(n) == [type |-> "int", number |-> n]
PyList(items) == [type |-> "list", items |-> items]
PyDict(map) == [type |-> "dict", map |-> map]

\* isinstance(value, type)
IsInstance(value, type) == value.type = type

\* The digits 0 to 9 in their order.
DecimalDigits == <<"0", "1", "2", "3", "4", "5", "6", "7", "8", "9">>

\* The decimal digits of a natural number.
RECURSIVE Decimal(_)
Decimal(n) ==
  IF n < 10 THEN <<DecimalDigits[n + 1]>>
  ELSE Append(Decimal(n \div 10), DecimalDigits[(n % 10) + 1])

\* The number a sequence of decimal digits writes.
RECURSIVE Number(_)
Number(digits) ==
  IF digits = <<>> THEN 0
  ELSE 10 * Number(SubSeq(digits, 1, Len(digits) - 1))
       + (CHOOSE d \in 0..9 : DecimalDigits[d + 1] = digits[Len(digits)])

\* str(value), of None, of a str and of an int
ToStr(value) ==
  IF IsInstance(value, "str") THEN value.chars
  ELSE IF IsInstance(value, "NoneType") THEN <<"N", "o", "n", "e">>
  ELSE IF value.number < 0 THEN <<"-">> \o Decimal(-value.number)
  ELSE Decimal(value.number)

\* int(value): of an int the int; of a str the number its digits write,
\* blanks around them stripped, or ValueError (strings with a sign or an
\* underscore are not among the inputs); TypeError of None, a list, a dict.
ToInt(value) ==
  IF IsInstance(value, "int") THEN Returned(value.number)
  ELSE IF ~IsInstance(value, "str") THEN Raised("TypeError", 0)
  ELSE IF /\ Strip(value.chars) # <<>>
          /\ \A i \in DOMAIN Strip(value.chars) :
               Strip(value.chars)[i] \in AsciiDigits
    THEN Returned(Number(Strip(value.chars)))
  ELSE Raised("ValueError", 0)

\* isinstance(item, dict) and all(key in item for key in
\* ["level", "text", "page"])
HasItemKeys(item) ==
  /\ IsInstance(item, "dict")
  /\ {"level", "text", "page"} \subseteq DOMAIN item.map

\* clean_item of an item whose page int() accepts
CleanItem(item) ==
  PyDict([level |-> PyStr(ToStr(item.map["level"])),
          text |-> PyStr(Strip(ToStr(item.map["text"]))),
          page |-> PyInt(ToInt(item.map["page"]).value)])

\* clean_item["level"] in ["H1", "H2", "H3"] and len(clean_item["text"]) > 0
KeepItem(clean_item) ==
  /\ clean_item.map["level"].chars
       \in {<<"H", "1">>, <<"H", "2">>, <<"H", "3">>}
  /\ Len(clean_item.map["text"].chars) > 0

\* The loop of _validate_and_clean_result over the items of the outline:
\* clean_outline, or the exception int() raises of the page of an item.
RECURSIVE CleanOutline(_, _)
CleanOutline(items, clean_outline) ==
  IF items = <<>> THEN Returned(clean_outline)
  ELSE IF ~HasItemKeys(Head(items))
    THEN CleanOutline(Tail(items), clean_outline)
  ELSE IF ToInt(Head(items).map["page"]).exc # "none"
    THEN Raised(ToInt(Head(items).map["page"]).exc, <<>>)
  ELSE CleanOutline(Tail(items),
                    IF KeepItem(CleanItem(Head(items)))
                      THEN Append(clean_outline, CleanItem(Head(items)))
                      ELSE clean_outline)

\* result.get(key) is an instance of type
GetIsInstance(result, key, type) ==
  /\ key \in DOMAIN result.map
  /\ IsInstance(result.map[key], type)

\* The dict _validate_and_clean_result returns, clean_outline being what
\* its loop built: result with its title replaced unless a str, and its
\* outline replaced.
CleanedResult(result, clean_outline) ==
  IF clean_outline.exc # "none" THEN Raised(clean_outline.exc, PyNone)
  ELSE Returned(PyDict(
         [key \in DOMAIN result.map \cup {"title", "outline"} |->
            IF key = "outline" THEN PyList(clean_outline.value)
            ELSE IF key = "title" /\ ~GetIsInstance(result, "title", "str")
              THEN PyStr(UntitledDocument)
            ELSE result.map[key]]))

\* _validate_and_clean_result of a dict with values of any type
ValidateAndCleanDict(result) ==
  CleanedResult(result,
                CleanOutline(IF GetIsInstance(result, "outline", "list")
                               THEN result.map["outline"].items
                               ELSE <<>>,
                             <<>>))

\* A call that has not been made.
NotCalled(none) == [exc |-> "not called", value |-> none]

\* process_single_pdf after the title is found: every exception is caught
\* (except Exception) and gives the empty result.  caught is the exception.
ProcessTitle(analysis, title) ==
  IF title.exc # "none"
    THEN [analysis |-> analysis, title |-> title, caught |-> title.exc,
          ret |-> Returned(CreateEmptyResult)]
    ELSE [analysis |-> analysis, title |-> title, caught |-> "none",
          ret |-> Returned(ValidateAndCleanResult(
                    [title |-> title.value, outline |-> analysis.ret.value]))]

\* A process_single_pdf that lets the exception of the analysis through.
ProcessAnalysisUncaught(analysis, extracted) ==
  IF analysis.ret.exc # "none"
    THEN [analysis |-> analysis, title |-> NotCalled(<<>>),
          caught |-> analysis.ret.exc,
          ret |-> Raised(analysis.ret.exc, CreateEmptyResult)]
    ELSE ProcessTitle(analysis, FindDocumentTitle(analysis.hierarchy, extracted))

\* process_single_pdf after the analysis: the title is found unless the
\* analysis raised.
ProcessAnalysis(analysis, extracted) ==
  IF analysis.ret.exc # "none"
    THEN [analysis |-> analysis, title |-> NotCalled(<<>>),
          caught |-> analysis.ret.exc, ret |-> Returned(CreateEmptyResult)]
    ELSE ProcessTitle(analysis, FindDocumentTitle(analysis.hierarchy, extracted))

\* process_single_pdf on a processor whose detector has font_hierarchy fh;
\* extracted is what extract_with_metadata returns ([] when it fails).
\* analysis and title are what the detector's calls gave, caught the
\* exception the except clause caught, ret what process_single_pdf returns.
ProcessSinglePdf(fh, extracted) ==
  IF extracted = <<>>
    THEN [analysis |-> AnalyzeDocumentStructure(fh, <<>>),
          title |-> NotCalled(<<>>), caught |-> "none",
          ret |-> Returned(CreateEmptyResult)]
    ELSE ProcessAnalysis(AnalyzeDocumentStructure(fh, extracted), extracted)

(***************************************************************************)
(* The inputs of the model.                                                *)
(***************************************************************************)
\* The most elements a document holds.
MaxElements == 2

\* The most classified headings _post_process_outline is given.
MaxHeadings == 2

\* The page numbers of a document.
Pages == {1, 2, 3}

\* The elements documents are made of, before their page is set: the
\* fields the extractor computes that the detector reads.
ElementPool ==
  { [text |-> Txt_Background, size |-> 180, is_bold |-> TRUE,
     is_left_aligned |-> FALSE, is_centered |-> TRUE, y_pos |-> 100,
     starts_with_number |-> FALSE, language_type |-> "latin"],
    [text |-> Txt_BACKGROUND, size |-> 140, is_bold |-> TRUE,
     is_left_aligned |-> TRUE, is_centered |-> FALSE, y_pos |-> 300,
     starts_with_number |-> FALSE, language_type |-> "latin"],
    [text |-> Txt_Introduction, size |-> 140, is_bold |-> TRUE,
     is_left_aligned |-> TRUE, is_centered |-> FALSE, y_pos |-> 120,
     starts_with_number |-> TRUE, language_type |-> "latin"],
    [text |-> Txt_IntroColons, size |-> 120, is_bold |-> TRUE,
     is_left_aligned |-> TRUE, is_centered |-> FALSE, y_pos |-> 200,
     starts_with_number |-> FALSE, language_type |-> "latin"],
    [text |-> Txt_Page3, size |-> 100, is_bold |-> FALSE,
     is_left_aligned |-> FALSE, is_centered |-> TRUE, y_pos |-> 700,
     starts_with_number |-> FALSE, language_type |-> "latin"],
    [text |-> Txt_Empty, size |-> 120, is_bold |-> FALSE,
     is_left_aligned |-> TRUE, is_centered |-> FALSE, y_pos |-> 400,
     starts_with_number |-> FALSE, language_type |-> "latin"] }

\* The element with its page set.
OnPage(element, page) ==
  [key \in DOMAIN element \cup {"page"} |->
     IF key = "page" THEN page ELSE element[key]]

\* The document of n pages whose elements are those of placed, a sequence
\* of <<element, page>> in reading order.
Document(n, placed) ==
  IF n = 0 THEN <<>>
  ELSE [p \in 1..n |->
          LET here == SelectSeq(placed, LAMBDA x : x[2] = p)
          IN  [i \in 1..Len(here) |-> OnPage(here[i][1], p)]]

\* The documents: at most MaxElements elements on the pages of Pages, each
\* element on the page whose number it carries (as the extractor sets it).
Documents ==
  UNION { { Document(n, placed) :
              placed \in { s \in [1..k -> ElementPool \X (1..n)] :
                             \A i \in 1..(k - 1) : s[i][2] <= s[i + 1][2] } } :
          n \in {0} \cup Pages, k \in 0..MaxElements }

\* The elements _calculate_heading_confidence is given directly: every
\* combination of the fields it reads, and each of them with optional
\* keys absent.
FullElements ==
  [text : {Txt_Empty, Txt_Blank, Txt_Background, Txt_BACKGROUND,
           Txt_Introduction, Txt_Page3},
   size : {70, 120, 140, 160},
   page : {1, 10, 21},
   is_bold : BOOLEAN,
   is_left_aligned : BOOLEAN,
   is_centered : BOOLEAN,
   y_pos : {100, 400},
   starts_with_number : BOOLEAN,
   language_type : {"latin"}]

\* The keys _calculate_heading_confidence may find absent.
OptionalKeys ==
  {"is_bold", "is_left_aligned", "is_centered", "y_pos",
   "starts_with_number", "language_type"}

Without(element, keys) == [key \in DOMAIN element \ keys |-> element[key]]

Elements ==
  { Without(e, keys) :
      e \in FullElements,
      keys \in {{}} \cup {{k} : k \in OptionalKeys} \cup {OptionalKeys} }

\* The values of self.font_hierarchy _calculate_heading_confidence is
\* called under: not set, empty, the fallback, one that is not decreasing,
\* and one with keys absent.
Hierarchies ==
  { NoHierarchy,
    Hierarchy(EmptyDict),
    Hierarchy([title |-> 160, H1 |-> 140, H2 |-> 120, H3 |-> 100]),
    Hierarchy([title |-> 120, H1 |-> 160, H2 |-> 70, H3 |-> 140]),
    Hierarchy([H1 |-> 120]) }

\* The sizes an element is scored again with.
OtherSizes == {70, 120, 140, 160, 240}

\* The classified headings _post_process_outline is given.
HeadingPool ==
  [level : {"title", "H1", "H2", "H3"},
   text : {Txt_Background, Txt_BACKGROUND, Txt_BackGround, Txt_IntroColons,
           Txt_ab},
   page : {1, 2}]

ClassifiedLists == UNION {[1..k -> HeadingPool] : k \in 0..MaxHeadings}

(***************************************************************************)
(* The processor and its detector as a state machine.                      *)
(***************************************************************************)
VARIABLES
  pages_data,          \* the document at hand, as the extractor would yield it
  extracted,           \* what extract_with_metadata returned last
  caught,              \* the exception process_single_pdf caught last
  font_hierarchy,      \* the detector's attribute self.font_hierarchy
  classified_headings, \* what _classify_headings returned last
  outline,             \* what analyze_document_structure
                       \* (_post_process_outline) returned last
  title,               \* what find_document_title returned last
  result,              \* what process_single_pdf
                       \* (_validate_and_clean_result) returned last
  element,             \* the element given to _calculate_heading_confidence
  confidence,          \* what _calculate_heading_confidence returned last
  resized,             \* the size and confidence of the element scored
                       \* again with another size
  reprocessed,         \* what _post_process_outline returned of its own
                       \* output
  potential_headings,  \* what _find_potential_headings returned last
  level,               \* the title_found _classify_heading_level was
                       \* called with last, and what it returned
  record,              \* the dict given to _validate_and_clean_result
  pdf_files,           \* the files process_all_pdfs found, each as the pages
                       \* extract_with_metadata yields for it
  processed_count,     \* the processor's attribute self.processed_count
  pattern_score,       \* the text and language type given to
                       \* _calculate_pattern_score last, and what it returned
  analyses             \* the analyses running on the detector at once: of
                       \* each its document, the step it is at and its
                       \* local variables

vars ==
  <<pages_data, extracted, caught, font_hierarchy, classified_headings,
    outline, title, result, element, confidence, resized, reprocessed,
    potential_headings, level, record, pdf_files, processed_count,
    pattern_score, analyses>>

\* The variables of the concurrent analyses, of process_all_pdfs and of
\* the calls of single functions.
others ==
  <<potential_headings, level, record, pdf_files, processed_count,
    pattern_score, analyses>>

NoElement == [text |-> <<>>, size |-> 0, page |-> 0]

\* The values of the variables a specification does not use.
Idle(unused) ==
  /\ "pages_data" \in unused => pages_data = <<>>
  /\ "extracted" \in unused => extracted = NotCalled(<<>>)
  /\ "caught" \in unused => caught = "none"
  /\ "font_hierarchy" \in unused => font_hierarchy = NoHierarchy
  /\ "classified_headings" \in unused => classified_headings = <<>>
  /\ "outline" \in unused => outline = NotCalled(<<>>)
  /\ "title" \in unused => title = NotCalled(<<>>)
  /\ "result" \in unused => result = NotCalled(CreateEmptyResult)
  /\ "element" \in unused => element = NoElement
  /\ "confidence" \in unused => confidence = NotCalled(0)
  /\ "resized" \in unused => resized = [size |-> 0, ret |-> NotCalled(0)]
  /\ "reprocessed" \in unused => reprocessed = NotCalled(<<>>)
  /\ "potential_headings" \in unused => potential_headings = NotCalled(<<>>)
  /\ "level" \in unused =>
       level = [title_found |-> FALSE, ret |-> NotCalled("None")]
  /\ "record" \in unused => record = PyNone
  /\ "pdf_files" \in unused => pdf_files = <<>>
  /\ "processed_count" \in unused => processed_count = 0
  /\ "analyses" \in unused => analyses = <<>>
  /\ "pattern_score" \in unused => pattern_score = NotCalled(0)

(***************************************************************************)
(* Spec: a processor, its detector and one document.                       *)
(***************************************************************************)
Init ==
  /\ pages_data \in Documents
  /\ Idle({"extracted", "caught", "font_hierarchy", "classified_headings",
           "outline", "title", "result", "element", "confidence", "resized",
           "reprocessed", "potential_headings", "level",
           "record", "pdf_files", "processed_count", "analyses",
           "pattern_score"})

\* detector.analyze_document_structure(pages_data)
AnalyzeDocumentStructureCall ==
  \E analysis \in {AnalyzeDocumentStructure(font_hierarchy, pages_data)} :
    /\ font_hierarchy' = analysis.hierarchy
    /\ classified_headings' = analysis.classified
    /\ outline' = analysis.ret
    /\ UNCHANGED <<pages_data, extracted, caught, title, result, element,
                   confidence, resized, reprocessed, others>>

\* detector.find_document_title(pages_data)
FindDocumentTitleCall ==
  /\ title' = FindDocumentTitle(font_hierarchy, pages_data)
  /\ UNCHANGED <<pages_data, extracted, caught, font_hierarchy,
                 classified_headings, outline, result, element, confidence,
                 resized, reprocessed, others>>

\* processor.process_single_pdf(pdf_path): extract_with_metadata returns
\* the document, or [] when opening or reading the file fails.  The
\* detector's calls leave what they returned in the variables.
ProcessSinglePdfCall ==
  \E pages \in {<<>>, pages_data} :
    \E processed \in {ProcessSinglePdf(font_hierarchy, pages)} :
      /\ extracted' = Returned(pages)
      /\ caught' = processed.caught
      /\ result' = processed.ret
      /\ font_hierarchy' = processed.analysis.hierarchy
      /\ IF pages = <<>>
           THEN UNCHANGED <<classified_headings, outline>>
           ELSE /\ classified_headings' = processed.analysis.classified
                /\ outline' = processed.analysis.ret
      /\ IF processed.title.exc = "not called"
           THEN UNCHANGED title
           ELSE title' = processed.title
      /\ UNCHANGED <<pages_data, element, confidence, resized, reprocessed,
                     others>>

Next ==
  \/ AnalyzeDocumentStructureCall
  \/ FindDocumentTitleCall
  \/ ProcessSinglePdfCall

Spec == Init /\ [][Next]_vars

(***************************************************************************)
(* SpecScore: _calculate_heading_confidence of one element on a detector.  *)
(***************************************************************************)
InitScore ==
  /\ element \in Elements
  /\ font_hierarchy \in Hierarchies
  /\ Idle({"pages_data", "extracted", "caught", "classified_headings",
           "outline", "title", "result", "confidence", "resized",
           "reprocessed", "potential_headings", "level",
           "record", "pdf_files", "processed_count", "analyses",
           "pattern_score"})

\* detector._calculate_heading_confidence(element)
CalculateHeadingConfidenceCall ==
  /\ confidence' = HeadingConfidence(font_hierarchy, element)
  /\ UNCHANGED <<pages_data, extracted, caught, font_hierarchy,
                 classified_headings, outline, title, result, element,
                 resized, reprocessed, others>>

\* detector._calculate_heading_confidence of the element with another size
CalculateResizedConfidenceCall ==
  \E size \in OtherSizes :
    /\ confidence.exc # "not called"
    /\ resized' =
         [size |-> size,
          ret |-> HeadingConfidence(font_hierarchy,
                                    [element EXCEPT !["size"] = size])]
    /\ UNCHANGED <<pages_data, extracted, caught, font_hierarchy,
                   classified_headings, outline, title, result, element,
                   confidence, reprocessed, others>>

NextScore ==
  \/ CalculateHeadingConfidenceCall
  \/ CalculateResizedConfidenceCall

SpecScore == InitScore /\ [][NextScore]_vars

(***************************************************************************)
(* SpecPost: _post_process_outline of a list of classified headings, and   *)
(* _validate_and_clean_result of the record made of its outline.           *)
(***************************************************************************)
InitPost ==
  /\ classified_headings \in ClassifiedLists
  /\ title = Returned(UntitledDocument)
  /\ Idle({"pages_data", "extracted", "caught", "font_hierarchy", "outline",
           "result", "element", "confidence", "resized", "reprocessed",
           "potential_headings", "level", "record", "pdf_files", "processed_count", "analyses",
           "pattern_score"})

\* detector._post_process_outline(classified_headings)
PostProcessOutlineCall ==
  /\ outline' = Returned(PostProcessOutline(classified_headings))
  /\ UNCHANGED <<pages_data, extracted, caught, font_hierarchy,
                 classified_headings, title, result, element, confidence,
                 resized, reprocessed, others>>

\* detector._post_process_outline(outline)
PostProcessAgainCall ==
  /\ outline.exc = "none"
  /\ reprocessed' = Returned(PostProcessOutline(outline.value))
  /\ UNCHANGED <<pages_data, extracted, caught, font_hierarchy,
                 classified_headings, outline, title, result, element,
                 confidence, resized, others>>

\* processor._validate_and_clean_result({"title": title, "outline": outline})
ValidateAndCleanResultCall ==
  /\ outline.exc = "none"
  /\ result' = Returned(ValidateAndCleanResult(
                          [title |-> title.value, outline |-> outline.value]))
  /\ UNCHANGED <<pages_data, extracted, caught, font_hierarchy,
                 classified_headings, outline, title, element, confidence,
                 resized, reprocessed, others>>

NextPost ==
  \/ PostProcessOutlineCall
  \/ PostProcessAgainCall
  \/ ValidateAndCleanResultCall

SpecPost == InitPost /\ [][NextPost]_vars

(***************************************************************************)
(* SpecConcurrent: two analyses of two different documents running at once *)
(* on one detector, as two threads sharing the SmartHeadingDetector would  *)
(* run them.  A thread is preempted between the statements of              *)
(* analyze_document_structure and before find_document_title; each         *)
(* statement is taken as one step (a thread may in fact be preempted       *)
(* inside a statement as well, which only adds interleavings).             *)
(***************************************************************************)
\* The documents analysed at once: one page of one or two elements, none
\* with a blank text.
ConcurrentDocuments ==
  { d \in Documents :
      /\ Len(d) = 1
      /\ d[1] # <<>>
      /\ Len(d[1]) <= 2
      /\ \A i \in DOMAIN d[1] : Strip(d[1][i]["text"]) # <<>> }

\* An analysis about to begin: its document, the statement it is at, and
\* its local variables.
Started(document) ==
  [pages_data |-> document,
   pc |-> "font_hierarchy",
   potential_headings |-> NotCalled(<<>>),
   classified_headings |-> <<>>,
   outline |-> NotCalled(<<>>),
   title |-> NotCalled(<<>>)]

InitConcurrent ==
  /\ analyses \in { <<Started(pair[1]), Started(pair[2])>> :
                      pair \in { ab \in ConcurrentDocuments
                                          \X ConcurrentDocuments :
                                   ab[1] # ab[2] } }
  /\ font_hierarchy = NoHierarchy
  /\ Idle({"pages_data", "extracted", "caught", "classified_headings",
           "outline", "title", "result", "element", "confidence", "resized",
           "reprocessed", "potential_headings", "level", "record",
           "pdf_files", "processed_count",
           "pattern_score"})

\* font_analysis = self.extractor.analyze_font_distribution(pages_data);
\* self.font_hierarchy = font_analysis['hierarchy']
AssignFontHierarchy(w) ==
  /\ analyses[w].pc = "font_hierarchy"
  /\ font_hierarchy' =
       Hierarchy(AnalyzeFontDistribution(analyses[w].pages_data))
  /\ analyses' = [analyses EXCEPT ![w].pc = "potential_headings"]
  /\ UNCHANGED <<pages_data, extracted, caught, classified_headings, outline,
                 title, result, element, confidence, resized, reprocessed,
                 potential_headings, level, record, pdf_files,
                 processed_count,
                 pattern_score>>

\* potential_headings = self._find_potential_headings(pages_data); an
\* exception ends analyze_document_structure.
FindPotentialHeadingsStep(w) ==
  /\ analyses[w].pc = "potential_headings"
  /\ \E found \in {FindPotentialHeadings(font_hierarchy,
                                         analyses[w].pages_data)} :
       analyses' =
         [analyses EXCEPT
            ![w].potential_headings = found,
            ![w].outline = IF found.exc = "none" THEN @
                           ELSE Raised(found.exc, <<>>),
            ![w].pc = IF found.exc = "none" THEN "classified_headings"
                      ELSE "done"]
  /\ UNCHANGED <<pages_data, extracted, caught, font_hierarchy,
                 classified_headings, outline, title, result, element,
                 confidence, resized, reprocessed, potential_headings, level,
                 record, pdf_files, processed_count,
                 pattern_score>>

\* classified_headings = self._classify_headings(potential_headings);
\* outline = self._post_process_outline(classified_headings); return outline
ClassifyHeadingsStep(w) ==
  /\ analyses[w].pc = "classified_headings"
  /\ \E classified \in {ClassifyHeadings(font_hierarchy,
                                         analyses[w].potential_headings.value)} :
       analyses' =
         [analyses EXCEPT
            ![w].classified_headings = classified,
            ![w].outline = Returned(PostProcessOutline(classified)),
            ![w].pc = "title"]
  /\ UNCHANGED <<pages_data, extracted, caught, font_hierarchy,
                 classified_headings, outline, title, result, element,
                 confidence, resized, reprocessed, potential_headings, level,
                 record, pdf_files, processed_count,
                 pattern_score>>

\* title = self.heading_detector.find_document_title(pages_data)
FindDocumentTitleStep(w) ==
  /\ analyses[w].pc = "title"
  /\ analyses' =
       [analyses EXCEPT
          ![w].title = FindDocumentTitle(font_hierarchy,
                                         analyses[w].pages_data),
          ![w].pc = "done"]
  /\ UNCHANGED <<pages_data, extracted, caught, font_hierarchy,
                 classified_headings, outline, title, result, element,
                 confidence, resized, reprocessed, potential_headings, level,
                 record, pdf_files, processed_count,
                 pattern_score>>

NextConcurrent ==
  \/ \E w \in DOMAIN analyses : AssignFontHierarchy(w)
  \/ \E w \in DOMAIN analyses : FindPotentialHeadingsStep(w)
  \/ \E w \in DOMAIN analyses : ClassifyHeadingsStep(w)
  \/ \E w \in DOMAIN analyses : FindDocumentTitleStep(w)

SpecConcurrent == InitConcurrent /\ [][NextConcurrent]_vars

(***************************************************************************)
(* SpecAll: process_all_pdfs, the loop of one processor over the files of  *)
(* a directory.  Saving each result succeeds, so that processed_count is   *)
(* the number of files the loop has gone through.                          *)
(***************************************************************************)
MaxFiles == 2

\* What extract_with_metadata yields for the files: no page (also the
\* outcome of a file that cannot be read), or one page of at most two
\* elements of decreasing size.
FilePool ==
  { d \in Documents :
      /\ Len(d) <= 1
      /\ Len(Flatten(d)) <= 2
      /\ \A i \in 1..(Len(Flatten(d)) - 1) :
           Flatten(d)[i]["size"] > Flatten(d)[i + 1]["size"] }

InitAll ==
  /\ pdf_files \in UNION {[1..k -> FilePool] : k \in 1..MaxFiles}
  /\ processed_count = 0
  /\ font_hierarchy = NoHierarchy
  /\ Idle({"pages_data", "extracted", "caught", "classified_headings",
           "outline", "title", "result", "element", "confidence", "resized",
           "reprocessed", "potential_headings", "level", "record",
           "analyses",
           "pattern_score"})

\* One turn of the loop: result = self.process_single_pdf(pdf_file);
\* self.processed_count += 1
ProcessNextPdf ==
  /\ processed_count < Len(pdf_files)
  /\ \E pages \in {pdf_files[processed_count + 1]} :
       \E processed \in {ProcessSinglePdf(font_hierarchy, pages)} :
         /\ pages_data' = pages
         /\ extracted' = Returned(pages)
         /\ caught' = processed.caught
         /\ result' = processed.ret
         /\ font_hierarchy' = processed.analysis.hierarchy
         /\ IF pages = <<>>
              THEN UNCHANGED <<classified_headings, outline>>
              ELSE /\ classified_headings' = processed.analysis.classified
                   /\ outline' = processed.analysis.ret
         /\ IF processed.title.exc = "not called"
              THEN UNCHANGED title
              ELSE title' = processed.title
  /\ processed_count' = processed_count + 1
  /\ UNCHANGED <<element, confidence, resized, reprocessed,
                 potential_headings, level, record, pdf_files, analyses,
                 pattern_score>>

NextAll == ProcessNextPdf

SpecAll == InitAll /\ [][NextAll]_vars

(***************************************************************************)
(* SpecValidate: _validate_and_clean_result of a dict with values of any   *)
(* type.                                                                   *)
(***************************************************************************)
MaxItems == 2

Txt_H1 == <<"H", "1">>
Txt_H2 == <<"H", "2">>
Txt_title == <<"t", "i", "t", "l", "e">>
Txt_3 == <<" ", "3">>
Txt_Padded == <<" ">> \o Txt_Summary \o <<" ">>

\* An item of the form _validate_and_clean_result makes.
CleanItemH1 ==
  [level |-> PyStr(Txt_H1), text |-> PyStr(Txt_Background), page |-> PyInt(1)]

\* The items of the outlines given: two of the form the function makes,
\* items with one value of another kind, items that lack a key or have a
\* further one, and an item that is no dict.
ItemPool ==
  { PyDict(CleanItemH1),
    PyDict([level |-> PyStr(Txt_H2), text |-> PyStr(Txt_Summary),
            page |-> PyInt(2)]),
    PyStr(Txt_ab) }
  \cup { PyDict([CleanItemH1 EXCEPT !.level = v]) :
           v \in {PyStr(Txt_title), PyInt(1), PyNone} }
  \cup { PyDict([CleanItemH1 EXCEPT !.text = v]) :
           v \in {PyStr(Txt_Blank), PyStr(Txt_Padded), PyInt(42), PyNone} }
  \cup { PyDict([CleanItemH1 EXCEPT !.page = v]) :
           v \in {PyInt(0 - 1), PyStr(Txt_3), PyStr(Txt_ab), PyNone} }
  \cup { PyDict(Without(CleanItemH1, {key})) :
           key \in {"level", "text", "page"} }
  \cup { PyDict([key \in {"level", "text", "page", "confidence"} |->
                   IF key = "confidence" THEN PyInt(1) ELSE CleanItemH1[key]]) }

\* The dicts given: the title a str, None, a number or absent; the outline
\* a list of at most MaxItems items, None or absent.
Records ==
  { PyDict(Without([title |-> t, outline |-> o], absent)) :
      t \in {PyStr(Txt_Background), PyStr(<<>>), PyNone, PyInt(7)},
      o \in {PyNone} \cup {PyList(items) :
                             items \in UNION {[1..k -> ItemPool] :
                                                k \in 0..MaxItems}},
      absent \in {{}, {"title"}, {"outline"}} }

InitValidate ==
  /\ record \in Records
  /\ Idle({"pages_data", "extracted", "caught", "font_hierarchy",
           "classified_headings", "outline", "title", "element",
           "confidence", "resized", "reprocessed", "potential_headings",
           "level", "pdf_files", "processed_count", "analyses",
           "pattern_score"})
  /\ result = NotCalled(PyNone)

\* processor._validate_and_clean_result(record)
ValidateAndCleanDictCall ==
  /\ result' = ValidateAndCleanDict(record)
  /\ UNCHANGED <<pages_data, extracted, caught, font_hierarchy,
                 classified_headings, outline, title, element, confidence,
                 resized, reprocessed, potential_headings, level, record,
                 pdf_files, processed_count, analyses,
                 pattern_score>>

NextValidate == ValidateAndCleanDictCall

SpecValidate == InitValidate /\ [][NextValidate]_vars

(***************************************************************************)
(* SpecClassify: one element scored by _calculate_heading_confidence,      *)
(* looked for by _find_potential_headings on the page it is on, and given  *)
(* a level by _classify_heading_level.                                     *)
(***************************************************************************)
\* The vertical positions, around the 150 of _calculate_position_score.
YPositions == {0, 100, 149, 150, 700}

\* "1. Introduction", 14 pt, bold, on page 1, and "Page 3", 10 pt, not
\* bold, on page 3, with every alignment and vertical position;
\* starts_with_number and language_type as the extractor derives them from
\* the text.
ExampleElements ==
  [text : {Txt_Introduction}, size : {140}, is_bold : {TRUE}, page : {1},
   is_left_aligned : BOOLEAN, is_centered : BOOLEAN, y_pos : YPositions,
   starts_with_number : {TRUE}, language_type : {"latin"}]
  \cup
  [text : {Txt_Page3}, size : {100}, is_bold : {FALSE}, page : {3},
   is_left_aligned : BOOLEAN, is_centered : BOOLEAN, y_pos : YPositions,
   starts_with_number : {FALSE}, language_type : {"latin"}]

\* Hierarchies with H1 = 14 pt and the title size above it.
ExampleHierarchies ==
  { Hierarchy([title |-> t, H1 |-> 140, H2 |-> lower[1], H3 |-> lower[2]]) :
      t \in {145, 150, 151, 160, 180},
      lower \in {<<120, 100>>, <<130, 120>>} }

\* The pages of a document whose only element is the one given, on the
\* page whose number it carries.
PagesOf(e) ==
  [p \in 1..e["page"] |-> IF p = e["page"] THEN <<e>> ELSE <<>>]

InitClassify ==
  /\ element \in ExampleElements
  /\ font_hierarchy \in ExampleHierarchies
  /\ Idle({"pages_data", "extracted", "caught", "classified_headings",
           "outline", "title", "result", "confidence", "resized",
           "reprocessed", "potential_headings", "level", "record",
           "pdf_files", "processed_count", "analyses",
           "pattern_score"})

\* detector._find_potential_headings(pages_data), the element being the
\* only one of the document
FindPotentialHeadingsCall ==
  /\ potential_headings' =
       FindPotentialHeadings(font_hierarchy, PagesOf(element))
  /\ UNCHANGED <<pages_data, extracted, caught, font_hierarchy,
                 classified_headings, outline, title, result, element,
                 confidence, resized, reprocessed, level, record, pdf_files,
                 processed_count, analyses,
                 pattern_score>>

\* detector._classify_heading_level(heading, title_found), heading being
\* the element with the confidence it got
ClassifyHeadingLevelCall ==
  \E title_found \in BOOLEAN :
    /\ confidence.exc = "none"
    /\ level' =
         [title_found |-> title_found,
          ret |-> Returned(ClassifyHeadingLevel(
                    font_hierarchy,
                    [key \in DOMAIN element \cup {"confidence"} |->
                       IF key = "confidence" THEN confidence.value
                       ELSE element[key]],
                    title_found))]
    /\ UNCHANGED <<pages_data, extracted, caught, font_hierarchy,
                   classified_headings, outline, title, result, element,
                   confidence, resized, reprocessed, potential_headings,
                   record, pdf_files, processed_count, analyses,
                 pattern_score>>

NextClassify ==
  \/ CalculateHeadingConfidenceCall
  \/ FindPotentialHeadingsCall
  \/ ClassifyHeadingLevelCall

SpecClassify == InitClassify /\ [][NextClassify]_vars

(***************************************************************************)
(* SpecFont: analyze_font_distribution of a document, as the first step of *)
(* analyze_document_structure runs it and keeps its hierarchy.  Of an      *)
(* element it reads the size and the page only.                            *)
(***************************************************************************)
MaxFontElements == 4

\* Font sizes in tenths of a point, one below font_size_threshold.
FontSizes == {70, 100, 110, 140, 180}

\* The elements in the order of their page and, on a page, from the
\* largest down: analyze_font_distribution counts them, whatever their
\* order.
FontDocuments ==
  UNION { { Document(3, placed) :
              placed \in { s \in [1..k -> [size : FontSizes] \X {1, 3}] :
                             \A i \in 1..(k - 1) :
                               \/ s[i][2] < s[i + 1][2]
                               \/ /\ s[i][2] = s[i + 1][2]
                                  /\ s[i][1].size >= s[i + 1][1].size } } :
          k \in 1..MaxFontElements }

InitFont ==
  /\ pages_data \in FontDocuments
  /\ Idle({"extracted", "caught", "font_hierarchy", "classified_headings",
           "outline", "title", "result", "element", "confidence", "resized",
           "reprocessed", "potential_headings", "level", "record",
           "pdf_files", "processed_count", "analyses",
           "pattern_score"})

\* font_analysis = extractor.analyze_font_distribution(pages_data);
\* self.font_hierarchy = font_analysis['hierarchy']
AnalyzeFontDistributionCall ==
  /\ font_hierarchy' = Hierarchy(AnalyzeFontDistribution(pages_data))
  /\ UNCHANGED <<pages_data, extracted, caught, classified_headings, outline,
                 title, result, element, confidence, resized, reprocessed,
                 others>>

NextFont == AnalyzeFontDistributionCall

SpecFont == InitFont /\ [][NextFont]_vars

(***************************************************************************)
(* SpecCandidates: _find_potential_headings of a document and              *)
(* _classify_headings of its candidates, on a detector whose hierarchy is  *)
(* set.                                                                    *)
(***************************************************************************)
\* The values of self.font_hierarchy: the fallback, one that is not
\* decreasing, one with keys absent, an empty one, and one whose H1 and H2
\* are above every size of the documents.
CandidateHierarchies ==
  { Hierarchy([title |-> 160, H1 |-> 140, H2 |-> 120, H3 |-> 100]),
    Hierarchy([title |-> 120, H1 |-> 160, H2 |-> 70, H3 |-> 140]),
    Hierarchy([H1 |-> 120]),
    Hierarchy(EmptyDict),
    Hierarchy([title |-> 300, H1 |-> 250, H2 |-> 200, H3 |-> 160]) }

InitCandidates ==
  /\ pages_data \in Documents
  /\ font_hierarchy \in CandidateHierarchies
  /\ Idle({"extracted", "caught", "classified_headings", "outline", "title",
           "result", "element", "confidence", "resized", "reprocessed",
           "potential_headings", "level", "record", "pdf_files",
           "processed_count", "analyses", "pattern_score"})

\* detector._find_potential_headings(pages_data)
FindPotentialHeadingsOfPagesCall ==
  /\ potential_headings' = FindPotentialHeadings(font_hierarchy, pages_data)
  /\ UNCHANGED <<pages_data, extracted, caught, font_hierarchy,
                 classified_headings, outline, title, result, element,
                 confidence, resized, reprocessed, level, record, pdf_files,
                 processed_count, pattern_score, analyses>>

\* detector._classify_headings(potential_headings)
ClassifyHeadingsCall ==
  /\ potential_headings.exc = "none"
  /\ classified_headings' =
       ClassifyHeadings(font_hierarchy, potential_headings.value)
  /\ UNCHANGED <<pages_data, extracted, caught, font_hierarchy, outline,
                 title, result, element, confidence, resized, reprocessed,
                 potential_headings, level, record, pdf_files,
                 processed_count, pattern_score, analyses>>

NextCandidates ==
  \/ FindPotentialHeadingsOfPagesCall
  \/ ClassifyHeadingsCall

SpecCandidates == InitCandidates /\ [][NextCandidates]_vars

(***************************************************************************)
(* SpecLevel: _classify_heading_level of one scored element, and           *)
(* _classify_headings of the document it is the only element of.           *)
(***************************************************************************)
\* Sizes around the thresholds less 0.5 of the hierarchies.
LevelSizes == {90, 95, 115, 135, 160}

\* Bold, left-aligned elements near the top of page 1 or 3: a text without
\* numbering and texts numbered "N.", "N.N" and "N.N.N"; starts_with_number
\* as the extractor derives it from the text.
LevelElements ==
  [text : {Txt_Background}, size : LevelSizes, is_bold : {TRUE},
   page : {1, 3}, is_left_aligned : {TRUE}, is_centered : {FALSE},
   y_pos : {100}, starts_with_number : {FALSE}, language_type : {"latin"}]
  \cup
  [text : {Txt_Introduction, Txt_Scope, Txt_Terms}, size : LevelSizes,
   is_bold : {TRUE}, page : {1, 3}, is_left_aligned : {TRUE},
   is_centered : {FALSE}, y_pos : {100}, starts_with_number : {TRUE},
   language_type : {"latin"}]

InitLevel ==
  /\ element \in LevelElements
  /\ font_hierarchy \in CandidateHierarchies
  /\ Idle({"pages_data", "extracted", "caught", "classified_headings",
           "outline", "title", "result", "confidence", "resized",
           "reprocessed", "potential_headings", "level", "record",
           "pdf_files", "processed_count", "analyses", "pattern_score"})

NextLevel ==
  \/ CalculateHeadingConfidenceCall
  \/ ClassifyHeadingLevelCall
  \/ FindPotentialHeadingsCall
  \/ ClassifyHeadingsCall

SpecLevel == InitLevel /\ [][NextLevel]_vars

(***************************************************************************)
(* SpecTexts: _calculate_pattern_score and _calculate_heading_confidence   *)
(* of one element on a detector that has analysed no document: the edge    *)
(* cases of test_edge_cases, and texts of kanji and kana with each of the   *)
(* language types of the CJK family.                                       *)
(***************************************************************************)
EdgeCaseTexts ==
  {Txt_Empty, Txt_a, Txt_LongWord, Txt_123, Txt_Bangs, Txt_Page1, Txt_Figure}

CJKTexts == {Txt_CJKSummary, Txt_CJKTitle, Txt_CJKContents, Txt_CJKChapter}

CJKLanguages == {"japanese", "chinese", "cjk"}

\* The element of test_edge_cases with each of the texts, and with is_bold
\* and y_pos varied.
TextElements ==
  [text : EdgeCaseTexts, size : {120}, is_bold : BOOLEAN, page : {1},
   y_pos : {100, 700}, is_left_aligned : {TRUE}, language_type : {"latin"}]
  \cup
  [text : CJKTexts, size : {120}, is_bold : BOOLEAN, page : {1},
   y_pos : {100, 700}, is_left_aligned : {TRUE},
   language_type : CJKLanguages]

InitTexts ==
  /\ element \in TextElements
  /\ Idle({"pages_data", "extracted", "caught", "font_hierarchy",
           "classified_headings", "outline", "title", "result",
           "confidence", "resized", "reprocessed", "potential_headings",
           "level", "record", "pdf_files", "processed_count", "analyses",
           "pattern_score"})

\* detector._calculate_pattern_score(element['text'],
\*                                   element['language_type'])
CalculatePatternScoreCall ==
  /\ pattern_score' =
       IF PatternScoreRaises(element["text"])
         THEN Raised("IndexError", 0)
         ELSE Returned(PatternScoreOf(element["text"],
                                      element["language_type"]))
  /\ UNCHANGED <<pages_data, extracted, caught, font_hierarchy,
                 classified_headings, outline, title, result, element,
                 confidence, resized, reprocessed, potential_headings, level,
                 record, pdf_files, processed_count, analyses>>

NextTexts ==
  \/ CalculatePatternScoreCall
  \/ CalculateHeadingConfidenceCall

SpecTexts == InitTexts /\ [][NextTexts]_vars

(***************************************************************************)
(* Properties.                                                             *)
(***************************************************************************)
HeadingLevels == {"H1", "H2", "H3"}

\* The list is in the order of (page, level priority).
Sorted(list) ==
  \A i \in 1..(Len(list) - 1) :
    \/ list[i].page < list[i + 1].page
    \/ /\ list[i].page = list[i + 1].page
       /\ GetLevelPriority(list[i].level) <= GetLevelPriority(list[i + 1].level)

\* The entries of kept are entries of list, in the order they have there.
InOrderOf(kept, list) ==
  /\ \A i \in DOMAIN kept : \E a \in DOMAIN list : list[a] = kept[i]
  /\ \A i, j \in DOMAIN kept :
       i < j => \E a, b \in DOMAIN list :
                  a < b /\ list[a] = kept[i] /\ list[b] = kept[j]

\* The element with every absent optional key at its default: False, 0,
\* 'latin'.
WithDefaults(e) ==
  [key \in DOMAIN e \cup OptionalKeys |->
     IF key \in DOMAIN e THEN e[key]
     ELSE IF key = "y_pos" THEN 0
     ELSE IF key = "language_type" THEN "latin"
     ELSE FALSE]

\* C1: for every element that has all its fields (any text, size, flags,
\* vertical position, page, language type) and every font hierarchy, set,
\* empty or not yet set, _calculate_heading_confidence returns a value
\* between 0 and 1.
C1_ConfidenceInUnitInterval ==
  (confidence.exc # "not called" /\ OptionalKeys \subseteq DOMAIN element)
    => /\ confidence.exc = "none"
       /\ 0 <= confidence.value
       /\ confidence.value <= 1000

\* C2: the list _classify_headings returns has at most one entry of level
\* 'title'.
C2_AtMostOneTitle ==
  Cardinality({i \in DOMAIN classified_headings :
                 classified_headings[i].level = "title"}) <= 1

\* A title was assigned, and a later candidate that meets the conditions of
\* the title got another level.
C2_SecondTitleCandidate ==
  \E i, j \in DOMAIN classified_headings :
    /\ i < j
    /\ classified_headings[i].level = "title"
    /\ classified_headings[j].level \in HeadingLevels
    /\ TitleConditions(font_hierarchy,
                       [size |-> classified_headings[j].font_size,
                        text |-> classified_headings[j].text,
                        page |-> classified_headings[j].page,
                        confidence |-> classified_headings[j].confidence])

\* C3: every entry of the outline analyze_document_structure returns, and
\* of the outline in the record process_single_pdf returns, has level H1,
\* H2 or H3, never 'title'.
C3_OutlineLevels ==
  /\ outline.exc = "none" =>
       \A i \in DOMAIN outline.value : outline.value[i].level \in HeadingLevels
  /\ result.exc = "none" =>
       \A i \in DOMAIN result.value.outline :
         result.value.outline[i].level \in HeadingLevels

\* A title was classified, and both outlines have entries.
C3_TitleLeftOut ==
  /\ \E i \in DOMAIN classified_headings :
       classified_headings[i].level = "title"
  /\ outline.exc = "none" /\ outline.value # <<>>
  /\ result.exc = "none" /\ result.value.outline # <<>>

\* C4: no two entries of the outline _post_process_outline returns have
\* texts that are equal but for case.
C4_NoDuplicateTexts ==
  outline.exc = "none" =>
    \A i, j \in DOMAIN outline.value :
      i # j => Lower(outline.value[i].text) # Lower(outline.value[j].text)

\* Two headings whose cleaned texts differ in case only were given, and
\* one entry came out for them.
C4_DuplicateDropped ==
  /\ outline.exc = "none"
  /\ \E i, j \in DOMAIN classified_headings :
       /\ i # j
       /\ classified_headings[i].level # "title"
       /\ classified_headings[j].level # "title"
       /\ CleanHeadingTextOf(classified_headings[i].text)
            # CleanHeadingTextOf(classified_headings[j].text)
       /\ Lower(CleanHeadingTextOf(classified_headings[i].text))
            = Lower(CleanHeadingTextOf(classified_headings[j].text))
  /\ Len(outline.value) = 1

\* C5: the outline _post_process_outline returns is sorted by page and,
\* within a page, by level priority (H1 = 1, H2 = 2, H3 = 3), and
\* _validate_and_clean_result keeps that order.
C5_OutlineSorted ==
  /\ outline.exc = "none" => Sorted(outline.value)
  /\ (outline.exc = "none" /\ result.exc = "none") =>
       /\ Sorted(result.value.outline)
       /\ InOrderOf(result.value.outline, outline.value)

\* Headings that were not in order were given, and came out of both
\* _post_process_outline and _validate_and_clean_result.
C5_Reordered ==
  /\ ~Sorted(OutlineHeadings(classified_headings))
  /\ outline.exc = "none" /\ Len(outline.value) >= 2
  /\ result.exc = "none" /\ Len(result.value.outline) >= 2

\* C6: _post_process_outline of what _post_process_outline returned is the
\* same sequence of (level, text, page) entries.
C6_Idempotent ==
  reprocessed.exc = "none" => reprocessed.value = outline.value

\* C7: of two elements that differ in font size only, the larger one gets
\* a confidence at least that of the smaller one, under every hierarchy.
C7_MonotoneInSize ==
  (confidence.exc = "none" /\ resized.ret.exc = "none") =>
    /\ resized.size >= element["size"] => resized.ret.value >= confidence.value
    /\ resized.size <= element["size"] => resized.ret.value <= confidence.value

\* Under a hierarchy that is set, the element scored again with a larger
\* size got a larger confidence.
C7_BandCrossed ==
  /\ font_hierarchy.set /\ DOMAIN font_hierarchy.map # {}
  /\ confidence.exc = "none" /\ resized.ret.exc = "none"
  /\ resized.size > element["size"]
  /\ resized.ret.value > confidence.value

\* C8: for an input without elements (no page, or pages without element)
\* analyze_document_structure returns [] and find_document_title returns
\* "Untitled Document".
C8_EmptyInput ==
  Flatten(pages_data) = <<>> =>
    /\ outline.exc # "not called" => outline = Returned(<<>>)
    /\ title.exc # "not called" => title = Returned(UntitledDocument)

\* Both were called on pages that hold no element.
C8_PagesWithoutElements ==
  /\ pages_data # <<>>
  /\ Flatten(pages_data) = <<>>
  /\ outline = Returned(<<>>)
  /\ title = Returned(UntitledDocument)

\* C9: process_single_pdf never raises, and returns the empty result
\* {"title": "Untitled Document", "outline": []} when extraction gives no
\* data or a step of the analysis raises.
C9_NeverRaises ==
  result.exc # "not called" =>
    /\ result.exc = "none"
    /\ (extracted.value = <<>> \/ caught # "none") =>
         result.value = [title |-> UntitledDocument, outline |-> <<>>]

\* The analysis of a document raised, and process_single_pdf returned the
\* empty result.
C9_ExceptionCaught ==
  /\ extracted.exc = "none" /\ extracted.value # <<>>
  /\ caught # "none"
  /\ outline.exc = caught
  /\ result = Returned([title |-> UntitledDocument, outline |-> <<>>])

\* C10: for an element that lacks optional fields (is_bold, the alignment
\* flags, y_pos, starts_with_number, language_type),
\* _calculate_heading_confidence does not raise and returns the score of
\* the element with each absent field at false/0.
C10_MissingFieldsDefault ==
  (confidence.exc # "not called" /\ Strip(element["text"]) # <<>>) =>
    confidence = HeadingConfidence(font_hierarchy, WithDefaults(element))

\* C11: find_document_title returns a title string for every list of pages,
\* whatever the detector did before: analyze_document_structure run on this
\* document, failed, or never run.
C11_TitleWithoutAnalysis ==
  (/\ title.exc # "not called"
   /\ \A i \in DOMAIN Flatten(pages_data) :
        Strip(Flatten(pages_data)[i]["text"]) # <<>>)
    => title.exc = "none"

\* C12: whatever the interleaving of the steps (hierarchy assignment,
\* candidate scoring, classification, title resolution) of two analyses of
\* two different documents on one detector, each analysis returns the
\* outline and the title it returns when it runs alone.
C12_InterleavingIndependent ==
  \A w \in DOMAIN analyses :
    analyses[w].pc = "done" =>
      /\ analyses[w].outline =
           AnalyzeDocumentStructure(NoHierarchy, analyses[w].pages_data).ret
      /\ analyses[w].title =
           FindDocumentTitle(
             Hierarchy(AnalyzeFontDistribution(analyses[w].pages_data)),
             analyses[w].pages_data)

\* C13: whatever a processor processed before (documents that were empty
\* or whose analysis raised included), process_single_pdf returns for a
\* document the title and the outline a fresh processor returns for it.
C13_HistoryIndependent ==
  result.exc # "not called" =>
    result = ProcessSinglePdf(NoHierarchy, pages_data).ret

\* A document was processed after another one that left another font
\* hierarchy on the detector, and got a title and an outline.
C13_ProcessedAfterAnother ==
  /\ processed_count >= 2
  /\ pdf_files[processed_count - 1] # <<>>
  /\ AnalyzeDocumentStructure(
       NoHierarchy, pdf_files[processed_count - 1]).hierarchy # font_hierarchy
  /\ result.exc = "none"
  /\ result.value.title # UntitledDocument
  /\ result.value.outline # <<>>

\* An item of the form _validate_and_clean_result promises: a level H1, H2
\* or H3, a text that is stripped and not empty, a page that is an integer.
ValidItem(item) ==
  /\ IsInstance(item, "dict")
  /\ DOMAIN item.map = {"level", "text", "page"}
  /\ IsInstance(item.map["level"], "str")
  /\ item.map["level"].chars \in {Txt_H1, Txt_H2, <<"H", "3">>}
  /\ IsInstance(item.map["text"], "str")
  /\ item.map["text"].chars # <<>>
  /\ Strip(item.map["text"].chars) = item.map["text"].chars
  /\ IsInstance(item.map["page"], "int")

\* A record of that form: a string title and a list of such items.
ValidRecord(r) ==
  /\ IsInstance(r, "dict")
  /\ {"title", "outline"} \subseteq DOMAIN r.map
  /\ IsInstance(r.map["title"], "str")
  /\ IsInstance(r.map["outline"], "list")
  /\ \A i \in DOMAIN r.map["outline"].items :
       ValidItem(r.map["outline"].items[i])

\* C14: for every record given, _validate_and_clean_result returns a record
\* with a string title and a list of items that each have a level H1, H2
\* or H3, a non-empty stripped text and an integer page; it returns a
\* record of that form unchanged, and puts "Untitled Document" for a title
\* that is not a string.
C14_ValidatedRecord ==
  result.exc # "not called" =>
    /\ result.exc = "none"
    /\ ValidRecord(result.value)
    /\ ValidRecord(record) => result.value = record
    /\ ~GetIsInstance(record, "title", "str") =>
         result.value.map["title"] = PyStr(UntitledDocument)

\* The fallback hierarchy {title: 16, H1: 14, H2: 12, H3: 10}.
FallbackHierarchy ==
  Hierarchy([title |-> 160, H1 |-> 140, H2 |-> 120, H3 |-> 100])

\* C15 as stated: the element "1. Introduction" of size 14, bold, on page
\* 1, gets a confidence of at least 0.4 and the level H1 under every
\* hierarchy with H1 = 14 and a title threshold above 14, whatever its
\* alignment flags and its vertical position.
C15_IntroductionIsH1 ==
  (element["text"] = Txt_Introduction /\ font_hierarchy.map["title"] > 140)
    => /\ confidence.exc # "not called" =>
            confidence.exc = "none" /\ confidence.value >= min_confidence
       /\ level.ret.exc # "not called" => level.ret.value = "H1"

\* C15 amended: the same under every hierarchy with H1 = 14 and a title
\* threshold more than one point above 14 (the title takes every element
\* down to one point below its threshold).
C15_IntroductionIsH1BelowTitleMargin ==
  (element["text"] = Txt_Introduction /\ font_hierarchy.map["title"] > 150)
    => /\ confidence.exc # "not called" =>
            confidence.exc = "none" /\ confidence.value >= min_confidence
       /\ level.ret.exc # "not called" => level.ret.value = "H1"

\* The element was scored high enough for a title while no title was
\* found yet, and got H1 because the title threshold is far enough above.
C15_NotTakenForTitle ==
  /\ element["text"] = Txt_Introduction
  /\ font_hierarchy.map["title"] > 150
  /\ confidence.exc = "none" /\ confidence.value >= title_confidence
  /\ level.ret.exc = "none" /\ ~level.title_found
  /\ level.ret.value = "H1"

\* C16: the element "Page 3" of size 10, not bold, on page 3, gets a
\* confidence below 0.4 under the hierarchy {title: 16, H1: 14, H2: 12,
\* H3: 10} and _find_potential_headings does not keep it, whatever its
\* alignment flags and its vertical position.
C16_PageNumberExcluded ==
  (element["text"] = Txt_Page3 /\ font_hierarchy = FallbackHierarchy)
    => /\ confidence.exc # "not called" =>
            confidence.exc = "none" /\ confidence.value < min_confidence
       /\ potential_headings.exc # "not called" =>
            potential_headings = Returned(<<>>)

\* The place in list of the first heading whose cleaned text is text but
\* for case.
FirstWithText(list, text) ==
  CHOOSE i \in DOMAIN list :
    /\ Lower(CleanHeadingTextOf(list[i].text)) = Lower(text)
    /\ \A j \in 1..(i - 1) :
         Lower(CleanHeadingTextOf(list[j].text)) # Lower(text)

DistinctSizes(pages) ==
  {SizedElements(pages)[i]["size"] : i \in DOMAIN SizedElements(pages)}

\* The distinct sizes other than the title size.
RemainingSizes(pages, fh) == DistinctSizes(pages) \ {fh.map["title"]}

\* C18: in the hierarchy _create_font_hierarchy makes, R being the distinct
\* sizes other than the title size: with two sizes in R, H1 and H2 are
\* these two and H3 = H2 - 1; with one size S in R, H1 = S, H2 = S - 1,
\* H3 = S - 2; with none, H1 = title - 2, H2 = H1 - 1, H3 = H1 - 2.
C18_SynthesisedLevels ==
  (font_hierarchy.set /\ DistinctSizes(pages_data) # {}) =>
    /\ Cardinality(RemainingSizes(pages_data, font_hierarchy)) = 2 =>
         /\ {font_hierarchy.map["H1"], font_hierarchy.map["H2"]}
              = RemainingSizes(pages_data, font_hierarchy)
         /\ font_hierarchy.map["H3"] = font_hierarchy.map["H2"] - 10
    /\ Cardinality(RemainingSizes(pages_data, font_hierarchy)) = 1 =>
         /\ font_hierarchy.map["H1"]
              \in RemainingSizes(pages_data, font_hierarchy)
         /\ font_hierarchy.map["H2"] = font_hierarchy.map["H1"] - 10
         /\ font_hierarchy.map["H3"] = font_hierarchy.map["H1"] - 20
    /\ Cardinality(RemainingSizes(pages_data, font_hierarchy)) = 0 =>
         /\ font_hierarchy.map["H1"] = font_hierarchy.map["title"] - 20
         /\ font_hierarchy.map["H2"] = font_hierarchy.map["H1"] - 10
         /\ font_hierarchy.map["H3"] = font_hierarchy.map["H1"] - 20

\* A document with two sizes besides the title size was analysed.
C18_TwoRemainingSizes ==
  /\ font_hierarchy.set
  /\ DistinctSizes(pages_data) # {}
  /\ Cardinality(RemainingSizes(pages_data, font_hierarchy)) = 2
  /\ font_hierarchy.map["H3"] = font_hierarchy.map["H2"] - 10

\* C19: when no element of the document has a size of 8.0 or more, the
\* hierarchy analyze_font_distribution gives, the one used for scoring and
\* classification, is {title: 16, H1: 14, H2: 12, H3: 10}, and an element
\* below each of its thresholds gets the size score 0.2.
C19_FallbackHierarchy ==
  (font_hierarchy.set /\ DistinctSizes(pages_data) = {}) =>
    /\ font_hierarchy = FallbackHierarchy
    /\ \A i \in DOMAIN Flatten(pages_data) :
         SizeScore(font_hierarchy, Flatten(pages_data)[i]["size"]) = 2

\* The list has the members of the set, from the largest down.
IsDescendingListOf(list, sizes) ==
  /\ {list[i] : i \in DOMAIN list} = sizes
  /\ Len(list) = Cardinality(sizes)
  /\ \A i \in 1..(Len(list) - 1) : list[i] > list[i + 1]

\* The first three sizes of the set, from the largest down.
ThreeLargest(sizes) ==
  {s \in sizes : Cardinality({t \in sizes : t > s}) < 3}

\* C20: the distinct sizes of 8.0 or more being ranked from the largest
\* down, the title threshold is, of the three highest-ranked sizes, one
\* with the most elements on pages 1-2, or the largest size when none of
\* the three is on pages 1-2; H1, H2, H3 are the next sizes in the order of
\* the rank.
C20_TitleAndLevelsBySize ==
  (font_hierarchy.set /\ DistinctSizes(pages_data) # {}) =>
    /\ IF \E s \in ThreeLargest(DistinctSizes(pages_data)) :
            EarlyCount(SizedElements(pages_data), s) > 0
         THEN /\ font_hierarchy.map["title"]
                   \in ThreeLargest(DistinctSizes(pages_data))
              /\ \A s \in ThreeLargest(DistinctSizes(pages_data)) :
                   EarlyCount(SizedElements(pages_data), s)
                     <= EarlyCount(SizedElements(pages_data),
                                   font_hierarchy.map["title"])
         ELSE \A s \in DistinctSizes(pages_data) :
                s <= font_hierarchy.map["title"]
    /\ Cardinality(RemainingSizes(pages_data, font_hierarchy)) >= 3 =>
         /\ font_hierarchy.map["H1"] > font_hierarchy.map["H2"]
         /\ font_hierarchy.map["H2"] > font_hierarchy.map["H3"]
         /\ {font_hierarchy.map["H1"], font_hierarchy.map["H2"],
             font_hierarchy.map["H3"]}
              = ThreeLargest(RemainingSizes(pages_data, font_hierarchy))
    /\ Cardinality(RemainingSizes(pages_data, font_hierarchy)) = 2 =>
         font_hierarchy.map["H1"] > font_hierarchy.map["H2"]

\* The element with the confidence _calculate_heading_confidence gives it.
Scored(fh, e) ==
  [key \in DOMAIN e \cup {"confidence"} |->
     IF key = "confidence" THEN HeadingConfidence(fh, e).value ELSE e[key]]

\* How many entries of the list are x.
CountIn(list, x) == Cardinality({i \in DOMAIN list : list[i] = x})

\* C21: _find_potential_headings returns the elements of confidence 0.4 or
\* more, each once, ordered so that the triples (page, -confidence, y_pos)
\* of consecutive candidates do not decrease; the classified headings come
\* in the order of the candidates.
C21_CandidatesSelectedAndSorted ==
  potential_headings.exc = "none" =>
    /\ \A i \in DOMAIN Flatten(pages_data) :
         CountIn(potential_headings.value,
                 Scored(font_hierarchy, Flatten(pages_data)[i]))
           = IF Scored(font_hierarchy, Flatten(pages_data)[i])["confidence"]
                  >= 400
               THEN CountIn(Flatten(pages_data), Flatten(pages_data)[i])
               ELSE 0
    /\ \A i \in DOMAIN potential_headings.value :
         \E j \in DOMAIN Flatten(pages_data) :
           potential_headings.value[i]
             = Scored(font_hierarchy, Flatten(pages_data)[j])
    /\ \A i \in 1..(Len(potential_headings.value) - 1) :
         \/ potential_headings.value[i]["page"]
              < potential_headings.value[i + 1]["page"]
         \/ /\ potential_headings.value[i]["page"]
                 = potential_headings.value[i + 1]["page"]
            /\ \/ potential_headings.value[i]["confidence"]
                    > potential_headings.value[i + 1]["confidence"]
               \/ /\ potential_headings.value[i]["confidence"]
                       = potential_headings.value[i + 1]["confidence"]
                  /\ potential_headings.value[i]["y_pos"]
                       <= potential_headings.value[i + 1]["y_pos"]
    /\ \A i \in 1..(Len(classified_headings) - 1) :
         \E a, b \in DOMAIN potential_headings.value :
           /\ a < b
           /\ potential_headings.value[a]["text"] = classified_headings[i].text
           /\ potential_headings.value[a]["page"] = classified_headings[i].page
           /\ potential_headings.value[b]["text"]
                = classified_headings[i + 1].text
           /\ potential_headings.value[b]["page"]
                = classified_headings[i + 1].page

\* Of two elements of a page the second got the higher confidence and came
\* first, and both candidates were classified.
C21_ReorderedByConfidence ==
  /\ potential_headings.exc = "none"
  /\ Len(Flatten(pages_data)) = 2
  /\ Len(potential_headings.value) = 2
  /\ Len(classified_headings) = 2
  /\ Flatten(pages_data)[1] # Flatten(pages_data)[2]
  /\ potential_headings.value[1]
       = Scored(font_hierarchy, Flatten(pages_data)[2])
  /\ potential_headings.value[2]
       = Scored(font_hierarchy, Flatten(pages_data)[1])

\* The five conditions on a candidate of a title: page, confidence, size
\* against the title threshold (16 when the hierarchy has none), word count
\* and noise keywords.
MeetsTitleRule(heading) ==
  /\ heading["page"] <= 2
  /\ heading["confidence"] >= 600
  /\ heading["size"] >= (IF "title" \in DOMAIN font_hierarchy.map
                           THEN font_hierarchy.map["title"] ELSE 160) - 10
  /\ WordCount(heading["text"]) <= 10
  /\ ~HasExcludeKeywordOf(heading["text"])

\* The classified headings of level 'title'.
TitleEntries(classified) ==
  {i \in DOMAIN classified : classified[i].level = "title"}

\* The title among the classified headings is the first of the candidates
\* that meets the five conditions, and no other is a title.
TitleIsFirstMeeting(candidates, classified) ==
  LET meeting == {i \in DOMAIN candidates : MeetsTitleRule(candidates[i])}
  IN  IF meeting = {}
        THEN TitleEntries(classified) = {}
        ELSE /\ Cardinality(TitleEntries(classified)) = 1
             /\ \A t \in TitleEntries(classified) :
                  \E i \in meeting :
                    /\ \A j \in meeting : i <= j
                    /\ classified[t].text = candidates[i]["text"]
                    /\ classified[t].page = candidates[i]["page"]
                    /\ classified[t].confidence = candidates[i]["confidence"]
                    /\ classified[t].font_size = candidates[i]["size"]
                    /\ Cardinality({k \in 1..(t - 1) :
                                      classified[k].level # "title"}) = t - 1
                    /\ t <= i

\* C22: _classify_headings gives the level 'title' to the first candidate, in
\* the sorted order, that is on page 1 or 2, has a confidence of 0.6 or more,
\* a size of the title threshold less 1 or more, at most 10 words and no
\* noise keyword, and to no other candidate.
C22_TitleIsFirstEligible ==
  [][ClassifyHeadingsCall =>
       TitleIsFirstMeeting(potential_headings.value, classified_headings')]_vars

\* The first candidate does not meet the conditions and got another level;
\* the second meets them and became the title.
C22_LaterCandidateIsTitle ==
  /\ potential_headings.exc = "none"
  /\ Len(potential_headings.value) = 2
  /\ ~MeetsTitleRule(potential_headings.value[1])
  /\ MeetsTitleRule(potential_headings.value[2])
  /\ Len(classified_headings) = 2
  /\ classified_headings[1].level # "title"
  /\ classified_headings[2].level = "title"

\* Both candidates meet the conditions; only the first became the title.
C22_SecondEligibleNotTitle ==
  /\ potential_headings.exc = "none"
  /\ Len(potential_headings.value) = 2
  /\ MeetsTitleRule(potential_headings.value[1])
  /\ MeetsTitleRule(potential_headings.value[2])
  /\ Len(classified_headings) = 2
  /\ classified_headings[1].level = "title"
  /\ classified_headings[2].level # "title"

\* The threshold of a level in self.font_hierarchy, or the default of
\* _classify_heading_level.
Threshold(key, default) ==
  IF key \in DOMAIN font_hierarchy.map THEN font_hierarchy.map[key]
  ELSE default

\* The level of the first rule that matches: the three of the size, then
\* the three of the numbering; "None" when none does.
FirstMatchingRule(font_size, text) ==
  CASE font_size >= Threshold("H1", 140) - 5 -> "H1"
    [] font_size < Threshold("H1", 140) - 5
       /\ font_size >= Threshold("H2", 120) - 5 -> "H2"
    [] font_size < Threshold("H1", 140) - 5
       /\ font_size < Threshold("H2", 120) - 5
       /\ font_size >= Threshold("H3", 100) - 5 -> "H3"
    [] OTHER ->
         IF MatchNumbering(text, 1) THEN "H1"
         ELSE IF MatchNumbering(text, 2) THEN "H2"
         ELSE IF MatchNumbering(text, 3) THEN "H3"
         ELSE "None"

\* C23: a candidate _classify_heading_level does not make the title gets
\* the level of the first matching rule, size rules before numbering rules,
\* and one that matches no rule gets None; _classify_headings lists the
\* candidate with that level, and does not list it when it got None.
C23_LevelOfFirstMatchingRule ==
  [][/\ ClassifyHeadingLevelCall =>
          level'.ret.value
            \in {"title", FirstMatchingRule(element["size"], element["text"])}
     /\ ClassifyHeadingsCall =>
          /\ Len(classified_headings') <= Len(potential_headings.value)
          /\ \A i \in DOMAIN potential_headings.value :
               IF MeetsTitleRule(potential_headings.value[i])
                 THEN classified_headings'[i].level = "title"
                 ELSE IF FirstMatchingRule(
                           potential_headings.value[i]["size"],
                           potential_headings.value[i]["text"]) = "None"
                   THEN classified_headings' = <<>>
                   ELSE /\ classified_headings'[i].level
                             = FirstMatchingRule(
                                 potential_headings.value[i]["size"],
                                 potential_headings.value[i]["text"])
                        /\ classified_headings'[i].text
                             = potential_headings.value[i]["text"]]_vars

\* A text numbered "N.N" of a size below the three thresholds got H2 and is
\* listed with it.
C23_LevelByNumbering ==
  /\ element["text"] = Txt_Scope
  /\ element["size"] < Threshold("H3", 100) - 5
  /\ level.ret = Returned("H2")
  /\ Len(classified_headings) = 1
  /\ classified_headings[1].level = "H2"

\* A text without numbering of a size below the three thresholds got None
\* and is not listed.
C23_Discarded ==
  /\ element["text"] = Txt_Background
  /\ level.ret = Returned("None")
  /\ potential_headings.exc = "none"
  /\ Len(potential_headings.value) = 1
  /\ classified_headings = <<>>

\* C28: of two classified headings with a level among H1, H2 and H3, the one
\* of the larger font size does not have the deeper level.
C28_LevelMonotoneInSize ==
  \A i, j \in DOMAIN classified_headings :
    /\ classified_headings[i].level \in HeadingLevels
    /\ classified_headings[j].level \in HeadingLevels
    /\ classified_headings[i].font_size > classified_headings[j].font_size
    => GetLevelPriority(classified_headings[i].level)
         <= GetLevelPriority(classified_headings[j].level)

\* C24: with each language type of the CJK family, a text that matches no
\* heading pattern and contains a keyword of the CJK list gets the pattern
\* score 0.6.
C24_CJKKeywordScore ==
  /\ element["language_type"] \in {"japanese", "chinese", "cjk"}
  /\ ~MatchesHeadingPattern(Strip(element["text"]))
  /\ ~MatchesCJKPattern(Strip(element["text"]))
  /\ \E keyword \in title_keywords_cjk :
       Contains(Lower(Strip(element["text"])), keyword)
  /\ pattern_score.exc # "not called"
  => pattern_score = Returned(6)

\* The element of test_edge_cases: size 12, not bold, left-aligned, on page
\* 1 at y 100, with one of its texts.
EdgeCaseElement ==
  /\ element["text"] \in EdgeCaseTexts
  /\ element["size"] = 120
  /\ ~element["is_bold"]
  /\ element["is_left_aligned"]
  /\ element["page"] = 1
  /\ element["y_pos"] = 100

\* C26: on a detector with no hierarchy, the confidence of the element of
\* test_edge_cases is computed without an exception and is below 0.5, for
\* each of the texts of the test.
C26_EdgeCasesScoreLow ==
  /\ ~font_hierarchy.set
  /\ EdgeCaseElement
  /\ confidence.exc # "not called"
  => confidence.exc = "none" /\ confidence.value < 500

\* C27: a hierarchy analyze_font_distribution gives that is not empty has
\* title > H1 > H2 > H3.
C27_DecreasingThresholds ==
  (font_hierarchy.set /\ font_hierarchy.map # EmptyDict) =>
    /\ font_hierarchy.map["title"] > font_hierarchy.map["H1"]
    /\ font_hierarchy.map["H1"] > font_hierarchy.map["H2"]
    /\ font_hierarchy.map["H2"] > font_hierarchy.map["H3"]

\* The elements of the first two pages.
EarlyElements == Flatten(SubSeq(pages_data, 1, Min(2, Len(pages_data))))

\* The elements of the first two pages with a confidence of 0.6 or more and
\* a size of the title threshold less 2 or more.
Qualified ==
  {i \in DOMAIN EarlyElements :
     /\ HeadingConfidence(font_hierarchy, EarlyElements[i]).value >= 600
     /\ EarlyElements[i]["size"] >= Threshold("title", 160) - 20}

\* (confidence, size) of the element i is not below that of the element j.
PairAtLeast(i, j) ==
  \/ HeadingConfidence(font_hierarchy, EarlyElements[i]).value
       > HeadingConfidence(font_hierarchy, EarlyElements[j]).value
  \/ /\ HeadingConfidence(font_hierarchy, EarlyElements[i]).value
          = HeadingConfidence(font_hierarchy, EarlyElements[j]).value
     /\ EarlyElements[i]["size"] >= EarlyElements[j]["size"]

\* C25: the title find_document_title returns is the cleaned text of an
\* element of pages 1-2 with confidence >= 0.6 and size >= title threshold
\* - 2 whose (confidence, size) is the greatest, when there is one; else,
\* when page 1 has elements, the cleaned text of an element of page 1 of the
\* largest size.
C25_TitleSelection ==
  [][(FindDocumentTitleCall /\ title'.exc = "none" /\ pages_data # <<>>) =>
       IF Qualified # {}
         THEN \E i \in Qualified :
                /\ \A j \in Qualified : PairAtLeast(i, j)
                /\ title'.value = CleanHeadingText(EarlyElements[i]["text"])
         ELSE pages_data[1] # <<>> =>
                \E i \in DOMAIN pages_data[1] :
                  /\ \A j \in DOMAIN pages_data[1] :
                       pages_data[1][j]["size"] <= pages_data[1][i]["size"]
                  /\ title'.value
                       = CleanHeadingText(pages_data[1][i]["text"])]_vars

\* Two elements of pages 1-2 qualify, the second with the greater
\* confidence, and the title is the cleaned text of the second.
C25_SecondCandidateWins ==
  /\ title.exc = "none"
  /\ Len(EarlyElements) = 2
  /\ Qualified = {1, 2}
  /\ ~PairAtLeast(1, 2)
  /\ title.value = CleanHeadingText(EarlyElements[2]["text"])
  /\ title.value # CleanHeadingText(EarlyElements[1]["text"])

\* No element qualifies and the title is the cleaned text of the largest
\* element of page 1, which is not the first of the page.
C25_LargestOfFirstPage ==
  /\ title.exc = "none"
  /\ Len(pages_data) >= 1
  /\ Len(pages_data[1]) = 2
  /\ Qualified = {}
  /\ pages_data[1][1]["size"] < pages_data[1][2]["size"]
  /\ title.value = CleanHeadingText(pages_data[1][2]["text"])
  /\ title.value # CleanHeadingText(pages_data[1][1]["text"])

\* C29: in the record process_single_pdf returns, the title is not the text
\* of an entry of the outline.
C29_TitleNotInOutline ==
  result.exc = "none" =>
    \A i \in DOMAIN result.value.outline :
      result.value.outline[i].text # result.value.title

\* The document has an element.
HasElement == Flatten(pages_data) # <<>>

\* C30: find_document_title does not return the empty string; it returns
\* "Untitled Document" only for a document without elements; for a document
\* with an element it returns the cleaned text, not empty, of one of them.
C30_TitleFromAnElement ==
  title.exc = "none" =>
    /\ title.value # <<>>
    /\ title.value = UntitledDocument => ~HasElement
    /\ HasElement =>
         \E i \in DOMAIN Flatten(pages_data) :
           title.value = CleanHeadingText(Flatten(pages_data)[i]["text"])

====
